---------------------------- MODULE Spec2Model ----------------------------
(***************************************************************************)
(* Model of the generator package of zchee/llmstxt-generator:              *)
(* GenerateLLMsTXT (the batch loop), processBatch (an errgroup with a      *)
(* worker limit and a mutex-guarded result slice) and processURL (scrape,  *)
(* then summarize, under a per-item timeout context).                      *)
(*                                                                         *)
(* The three collaborators (MapWebsite, ScrapeURL, SummarizeContent) are   *)
(* interface values: what they return is an input, drawn from small sets.  *)
(* The run-level context can be cancelled at any moment, and the timer of  *)
(* a per-item timeout context can fire at any moment of its life.          *)
(*                                                                         *)
(* Positions are 0-based as in the Go code: the URL at position p of the   *)
(* Go slice urls is urls[p + 1] here.                                      *)
(*                                                                         *)
(* Further sections model the command (cmd.generate with config.Validate   *)
(* and normalizeURL over net/url's parser), the rendering of the two       *)
(* artifacts, the text utilities of cmd, and the content a summarizer      *)
(* sends. Texts and URLs are sequences of tokens. The specifications share *)
(* the variables and differ by their initial states: Spec, DirectSpec,     *)
(* FixedSpec, CliSpec, RenderSpec, TextSpec and ContentSpec.               *)
(***************************************************************************)
EXTENDS Integers, Sequences, FiniteSets, TLC

\* ---------------------------------------------------------------- bounds
\* Longest list MapWebsite returns (longer than MaxURLsBound: it over-returns).
MaxDiscovered == 4
\* options.MaxURLs ranges over 1..MaxURLsBound.
MaxURLsBound == 3
\* options.BatchSize ranges over 1..MaxBatchSize.
MaxBatchSize == 3
\* options.MaxWorkers ranges over 1..MaxWorkersBound.
MaxWorkersBound == 2

VARIABLES
    targetURL,      \* GenerateLLMsTXT: the argument targetURL
    collab,         \* what the three collaborators may answer (see AnyCollab)
    cli,            \* cmd: where generate is, and what it has done (see NoCLI)
    pure,           \* a function applied on its own: its input and its outputs
    options,        \* g.options: MaxURLs, BatchSize, MaxWorkers, BatchDelay, NoFullText
    ctxDone,        \* the run-level ctx has been cancelled
    pc,             \* where GenerateLLMsTXT is
    urls,           \* GenerateLLMsTXT: urls (after truncation)
    i,              \* GenerateLLMsTXT: the loop variable i (0-based start of the batch)
    allResults,     \* GenerateLLMsTXT: allResults
    ret,            \* what GenerateLLMsTXT returned: result is <<>> for nil,
                    \* <<r>> for a pointer to the GenerationResult r
    task,           \* processBatch: one goroutine per URL of the batch (0-based)
    next,           \* processBatch: position of the next URL the range loop submits
    results,        \* processBatch: results, the shared slice
    mu,             \* processBatch: mu, -1 when unlocked, else the task holding it
    sem,            \* errgroup: number of tokens in g.sem
    egErr,          \* errgroup: g.err (set once)
    egCancelled,    \* errgroup: the group's context was cancelled by the group
    mapCalls,       \* history: number of MapWebsite calls
    mapRes,         \* history: what MapWebsite returned: "none", "err", "empty", "urls"
    scrapeCalls,    \* history: ScrapeURL calls per position of urls
    summarizeCalls, \* history: SummarizeContent calls per position
    summarizeErr,   \* history: positions whose SummarizeContent call returned an error
    taskRet,        \* history: what the goroutine of each position returned
    batchLog,       \* history: one record per processBatch call that returned
    waits,          \* history: number of inter-batch waits begun
    cancelledAt     \* history: value of pc when the run-level ctx was cancelled

vars == <<targetURL, collab, cli, pure, options, ctxDone, pc, urls, i, allResults, ret, task, next, results,
          mu, sem, egErr, egCancelled, mapCalls, mapRes, scrapeCalls,
          summarizeCalls, summarizeErr, taskRet, batchLog, waits, cancelledAt>>

\* ------------------------------------------------------------ helpers
Min(a, b) == IF a < b THEN a ELSE b

\* Go's nil error.
NoErr == "nil"
\* context.Canceled and context.DeadlineExceeded.
Canceled == "context canceled"
DeadlineExceeded == "context deadline exceeded"

\* A target argument of GenerateLLMsTXT: "https://ex.com".
ExampleTarget == <<"https", ":", "/", "/", "ex.com">>

\* The site MapWebsite maps: the URL it lists at (0-based) position p.  The
\* list repeats a URL: the pipeline does not dedupe.
SiteURL(p) == IF p % 3 = 0 THEN "https://ex.com/a"
              ELSE IF p % 3 = 1 THEN "https://ex.com/b"
              ELSE "https://ex.com/a"

Discovered(n) == [p \in 1..n |-> SiteURL(p - 1)]

\* What MapWebsite can return: an error, or a list of 0..MaxDiscovered URLs.
\* (an implementation of the interface may return both).
MapOutcomes == {[err |-> e, urls |-> Discovered(n)] :
                   e \in {NoErr, "map"}, n \in 0..MaxDiscovered}

\* What ScrapeURL can return: (data, nil) with a body, (nil, err), (nil, nil),
\* or (data, nil) with an empty Markdown.
ScrapeOutcomes == {"ok", "err", "nil", "empty"}

\* The Markdown of the ScrapedData ScrapeURL returns for a URL: a body, or
\* the empty string.
Body(url) == <<"body of ", url>>
Markdown(url, out) == IF out = "ok" THEN Body(url) ELSE <<>>

\* What SummarizeContent can return: (title, description, nil) or an error.
SummarizeOutcomes == {"ok", "err"}


\* A Go string is a sequence of tokens here (a token is a piece of text that
\* no operation of the program splits).
\* The fallback text of processURL.
FallbackTitle == <<"Page">>
FallbackDescription == <<"No description available">>

\* The title and description SummarizeContent returns for a URL on success.
TitleOf(url) == <<"title of ", url>>
DescriptionOf(url) == <<"description of ", url>>

\* Values options can take.  BatchDelay is a time.Duration: negative, zero or
\* positive; only its sign matters to time.After.
BatchDelays == {-1, 0, 1}

Options == [MaxURLs : 1..MaxURLsBound, BatchSize : 1..MaxBatchSize,
            MaxWorkers : 1..MaxWorkersBound, BatchDelay : BatchDelays,
            NoFullText : BOOLEAN]

\* The zero generator.GenerationOptions (no generator is constructed yet).
ZeroOptions == [MaxURLs |-> 0, BatchSize |-> 0, MaxWorkers |-> 0,
                BatchDelay |-> 0, NoFullText |-> FALSE]

\* The collaborators are interface values (FirecrawlClient, SummarizerClient):
\* collab.map is the set of answers MapWebsite may give, collab.scrape[p] and
\* collab.summarize[p] those ScrapeURL and SummarizeContent may give for the
\* URL at position p.  AnyCollab leaves every answer open at every call.
AnyCollab == [map |-> MapOutcomes,
              scrape |-> [p \in 0..(MaxURLsBound - 1) |-> ScrapeOutcomes],
              summarize |-> [p \in 0..(MaxURLsBound - 1) |-> SummarizeOutcomes]]

\* GenerateLLMsTXT called by a program other than cmd: no generate is running.
NoCLI == [pc |-> "none"]

\* Positions of the (truncated) URL list, 0-based.
Positions == 0..(Len(urls) - 1)

\* GenerateLLMsTXT: end := min(i+batchSize, len(urls)); batch := urls[i:end]
\* Mutant of BatchEnd: a batch holds one URL whatever the batch size.
BatchEndOne == Min(i + 1, Len(urls))

BatchEnd == Min(i + options.BatchSize, Len(urls))
BatchLen == BatchEnd - i
\* Mutant of BatchURL: the URL is taken from the whole list, not the batch.
BatchURLNoOffset(k) == urls[k + 1]

BatchURL(k) == urls[i + k + 1]

\* A goroutine of the batch that has not been submitted yet.
\* scraped is what ScrapeURL returned to it ("none" before it returns) and
\* markdown the scrapedData.Markdown it holds.
\* seen is the value of results it read for its append, err the error it
\* returned.
NewTask == [pc |-> "unsubmitted", expired |-> FALSE, scraped |-> "none",
            markdown |-> <<>>, title |-> <<>>, description |-> <<>>,
            seen |-> <<>>, err |-> NoErr]
NoTasks == [k \in {} |-> NewTask]

\* ------------------------------------------------------------ contexts
\* Mutant of GroupDone: the goroutines watch the run ctx, not the group's.
GroupDoneRunOnly == ctxDone

\* <-ctx.Done() of the errgroup's ctx: the run ctx is its parent.
GroupDone == ctxDone \/ egCancelled

\* Mutant of TimeoutDone: the deadline of the timeout context is ignored.
TimeoutDoneGroupOnly(k) == GroupDone

\* <-ctx.Done() and ctx.Err() of the context.WithTimeout of task k.
TimeoutDone(k) == task[k].expired \/ GroupDone
TimeoutErr(k) == IF task[k].expired THEN DeadlineExceeded ELSE Canceled

\* ------------------------------------------------------------ Init
\* No function is applied on its own.
NoPure == [pc |-> "none"]

\* Nothing of GenerateLLMsTXT has run yet, and the run-level ctx is live.
Fresh ==
    /\ ctxDone = FALSE
    /\ urls = <<>>
    /\ i = 0
    /\ allResults = <<>>
    /\ ret = [result |-> <<>>, err |-> NoErr]
    /\ task = NoTasks
    /\ next = 0
    /\ results = <<>>
    /\ mu = -1
    /\ sem = 0
    /\ egErr = NoErr
    /\ egCancelled = FALSE
    /\ mapCalls = 0
    /\ mapRes = "none"
    /\ scrapeCalls = <<>>
    /\ summarizeCalls = <<>>
    /\ summarizeErr = {}
    /\ taskRet = <<>>
    /\ batchLog = <<>>
    /\ waits = 0
    /\ cancelledAt = "never"

\* A program calls GenerateLLMsTXT(ctx, "https://ex.com") on a generator built
\* with any options, over collaborators that may answer anything.
Init ==
    /\ targetURL = ExampleTarget
    /\ collab = AnyCollab
    /\ cli = NoCLI
    /\ options \in Options
    /\ pc = "map"
    /\ pure = NoPure
    /\ Fresh

batchVars == <<task, next, results, mu, sem, egErr, egCancelled>>
histVars == <<mapCalls, mapRes, scrapeCalls, summarizeCalls, summarizeErr,
              taskRet, batchLog, waits>>

\* GenerateLLMsTXT returns (nil, err).
ReturnErr(e) ==
    /\ pc' = "done"
    /\ ret' = [result |-> <<>>, err |-> e]

\* ------------------------------------------------------------ the run ctx
\* The caller cancels the run-level context (a signal, in cmd).
Cancel ==
    /\ ~ctxDone
    /\ pc # "done"
    /\ ctxDone' = TRUE
    /\ cancelledAt' = pc
    /\ UNCHANGED <<targetURL, collab, cli, pure, options, pc, urls, i, allResults, ret>>
    /\ UNCHANGED batchVars
    /\ UNCHANGED histVars

\* ------------------------------------------------------------ GenerateLLMsTXT
\* urls, err := MapWebsite(...); the two early returns; the truncation.
\* Mutant of Truncate: the list is processed whole.
TruncateNone(list) == list

Truncate(list) == IF Len(list) > options.MaxURLs
                  THEN SubSeq(list, 1, options.MaxURLs) ELSE list

\* Mutant of MapError: the len(urls) == 0 check is missing.
MapErrorNoEmptyCheck(out) == IF out.err # NoErr THEN "map website" ELSE NoErr

MapError(out) == IF out.err # NoErr THEN "map website"
                 ELSE IF Len(out.urls) = 0 THEN "no URLs found for the website"
                 ELSE NoErr

MapReturns(out) ==
    /\ mapCalls' = mapCalls + 1
    /\ mapRes' = IF out.err # NoErr THEN "err"
                 ELSE IF Len(out.urls) = 0 THEN "empty" ELSE "urls"
    /\ IF MapError(out) # NoErr
       THEN /\ ReturnErr(MapError(out))
            /\ UNCHANGED <<urls, scrapeCalls, summarizeCalls, taskRet>>
       ELSE /\ urls' = Truncate(out.urls)
            /\ pc' = "loop"
            /\ scrapeCalls' = [p \in 0..(Len(urls') - 1) |-> 0]
            /\ summarizeCalls' = [p \in 0..(Len(urls') - 1) |-> 0]
            /\ taskRet' = [p \in 0..(Len(urls') - 1) |-> "none"]
            /\ UNCHANGED ret

MapWebsite ==
    /\ pc = "map"
    /\ \E out \in collab.map : MapReturns(out)
    /\ UNCHANGED <<targetURL, collab, cli, pure, options, ctxDone, i, allResults, summarizeErr, batchLog,
                   waits, cancelledAt>>
    /\ UNCHANGED batchVars

\* The loop condition holds: processBatch(ctx, batch, i, logger) is entered.
StartBatch ==
    /\ pc = "loop"
    /\ i < Len(urls)
    /\ pc' = "batch"
    /\ task' = [k \in 0..(BatchLen - 1) |-> NewTask]
    /\ next' = 0
    /\ results' = <<>>
    /\ mu' = -1
    /\ sem' = 0
    /\ egErr' = NoErr
    /\ egCancelled' = FALSE
    /\ UNCHANGED <<targetURL, collab, cli, pure, options, ctxDone, urls, i, allResults, ret, cancelledAt>>
    /\ UNCHANGED histVars

\* ------------------------------------------------------------ errgroup
\* Mutant of GoroutineReturns: done() is missing, the token stays in g.sem.
GoroutineReturnsNoDone(k, e, out) ==
    /\ task' = [task EXCEPT ![k] = [NewTask EXCEPT !.pc = "returned",
                                                   !.scraped = out, !.err = e]]
    /\ sem' = sem
    /\ egErr' = IF e # NoErr /\ egErr = NoErr THEN e ELSE egErr
    /\ egCancelled' = (egCancelled \/ e # NoErr)
    /\ taskRet' = [taskRet EXCEPT ![i + k] = IF e = NoErr THEN NoErr ELSE "error"]

\* The goroutine of eg.Go returns e: g.errOnce keeps the first error and
\* cancels the group's ctx; done() takes the token back from g.sem.  out is
\* what ScrapeURL had returned to the goroutine ("none" if it was not called).
GoroutineReturns(k, e, out) ==
    /\ task' = [task EXCEPT ![k] = [NewTask EXCEPT !.pc = "returned",
                                                   !.scraped = out, !.err = e]]
    /\ sem' = sem - 1
    /\ egErr' = IF e # NoErr /\ egErr = NoErr THEN e ELSE egErr
    /\ egCancelled' = (egCancelled \/ e # NoErr)
    /\ taskRet' = [taskRet EXCEPT ![i + k] = IF e = NoErr THEN NoErr ELSE "error"]

\* Mutant of SemFree: eg.SetLimit is missing, eg.Go never blocks.
SemFreeNoLimit == TRUE

\* eg.Go(f) may start the goroutine: g.sem <- token{} does not block.
SemFree == sem < options.MaxWorkers

\* processBatch's range loop: eg.Go for the URL at position k of the batch.
Go(k) ==
    /\ pc = "batch"
    /\ next = k
    /\ k < BatchLen
    /\ SemFree
    /\ sem' = sem + 1
    /\ next' = k + 1
    /\ task' = [task EXCEPT ![k].pc = "started"]
    /\ UNCHANGED <<targetURL, collab, cli, pure, options, ctxDone, pc, urls, i, allResults, ret, results, mu,
                   egErr, egCancelled, cancelledAt>>
    /\ UNCHANGED histVars

\* The goroutine's first select: the group's ctx is done, or processURL is called.
TaskCheck(k) ==
    /\ pc = "batch"
    /\ task[k].pc = "started"
    /\ IF GroupDone
       THEN GoroutineReturns(k, Canceled, "none")
       ELSE /\ task' = [task EXCEPT ![k].pc = "processURL"]
            /\ UNCHANGED <<sem, egErr, egCancelled, taskRet>>
    /\ UNCHANGED <<targetURL, collab, cli, pure, options, ctxDone, pc, urls, i, allResults, ret, next, results,
                   mu, mapCalls, mapRes, scrapeCalls, summarizeCalls, summarizeErr,
                   batchLog, waits, cancelledAt>>

\* ------------------------------------------------------------ processURL
\* The select at the top of processURL, then context.WithTimeout and the call
\* of ScrapeURL.
ProcessURLEnter(k) ==
    /\ pc = "batch"
    /\ task[k].pc = "processURL"
    /\ IF GroupDone
       THEN /\ GoroutineReturns(k, Canceled, "none")
            /\ UNCHANGED scrapeCalls
       ELSE /\ task' = [task EXCEPT ![k].pc = "scrape"]
            /\ scrapeCalls' = [scrapeCalls EXCEPT ![i + k] = @ + 1]
            /\ UNCHANGED <<sem, egErr, egCancelled, taskRet>>
    /\ UNCHANGED <<targetURL, collab, cli, pure, options, ctxDone, pc, urls, i, allResults, ret, next, results,
                   mu, mapCalls, mapRes, summarizeCalls, summarizeErr, batchLog, waits,
                   cancelledAt>>

\* The timer of task k's timeout context fires (the context is alive from
\* WithTimeout to the deferred cancel, and not done yet).
Timeout(k) ==
    /\ pc = "batch"
    /\ task[k].pc \in {"scrape", "scraped", "summarize"}
    /\ ~TimeoutDone(k)
    /\ task' = [task EXCEPT ![k].expired = TRUE]
    /\ UNCHANGED <<targetURL, collab, cli, pure, options, ctxDone, pc, urls, i, allResults, ret, next, results,
                   mu, sem, egErr, egCancelled, cancelledAt>>
    /\ UNCHANGED histVars

\* Mutant of ScrapeFailed: the check of scrapedData.Markdown == "" is missing.
ScrapeFailedNoEmptyCheck(out) == out \in {"err", "nil"}

\* Mutant of ScrapeFailed: only err is checked, not the nil result or the
\* empty Markdown.
ScrapeFailedErrOnly(out) == out = "err"

\* if err != nil || scrapedData == nil || scrapedData.Markdown == ""
ScrapeFailed(out) == out \in {"err", "nil", "empty"}

\* ScrapeURL returns out; processURL returns the wrapped error on failure.
ScrapeReturns(k, out) ==
    IF ScrapeFailed(out)
    THEN GoroutineReturns(k, "scrape URL", out)
    ELSE /\ task' = [task EXCEPT ![k].pc = "scraped", ![k].scraped = out,
                                 ![k].markdown = Markdown(BatchURL(k), out)]
         /\ UNCHANGED <<sem, egErr, egCancelled, taskRet>>

Scrape(k) ==
    /\ pc = "batch"
    /\ task[k].pc = "scrape"
    /\ \E out \in collab.scrape[i + k] : ScrapeReturns(k, out)
    /\ UNCHANGED <<targetURL, collab, cli, pure, options, ctxDone, pc, urls, i, allResults, ret, next, results,
                   mu, mapCalls, mapRes, scrapeCalls, summarizeCalls, summarizeErr,
                   batchLog, waits, cancelledAt>>

\* The select before the OpenAI call, on the timeout context; then the call of
\* SummarizeContent.
BeforeSummarize(k) ==
    /\ pc = "batch"
    /\ task[k].pc = "scraped"
    /\ IF TimeoutDone(k)
       THEN /\ GoroutineReturns(k, TimeoutErr(k), "ok")
            /\ UNCHANGED summarizeCalls
       ELSE /\ task' = [task EXCEPT ![k].pc = "summarize"]
            /\ summarizeCalls' = [summarizeCalls EXCEPT ![i + k] = @ + 1]
            /\ UNCHANGED <<sem, egErr, egCancelled, taskRet>>
    /\ UNCHANGED <<targetURL, collab, cli, pure, options, ctxDone, pc, urls, i, allResults, ret, next, results,
                   mu, mapCalls, mapRes, scrapeCalls, summarizeErr, batchLog, waits,
                   cancelledAt>>

\* Mutant of Summarized: no fallback, the empty title and description that
\* SummarizeContent returns with its error are kept.
SummarizedNoFallback(k, out) ==
    [pc |-> "lock", expired |-> FALSE, scraped |-> task[k].scraped,
     markdown |-> task[k].markdown, seen |-> <<>>, err |-> NoErr,
     title |-> IF out = "err" THEN <<>> ELSE TitleOf(BatchURL(k)),
     description |-> IF out = "err" THEN <<>> ELSE DescriptionOf(BatchURL(k))]

\* title, description, err := SummarizeContent(...); the fallback when err != nil.
Summarized(k, out) ==
    [pc |-> "lock", expired |-> FALSE, scraped |-> task[k].scraped,
     markdown |-> task[k].markdown, seen |-> <<>>, err |-> NoErr,
     title |-> IF out = "err" THEN FallbackTitle ELSE TitleOf(BatchURL(k)),
     description |-> IF out = "err" THEN FallbackDescription
                     ELSE DescriptionOf(BatchURL(k))]

\* SummarizeContent returns; processURL returns &ProcessedURL{...}, nil (its
\* deferred cancel releases the timeout context).
Summarize(k) ==
    /\ pc = "batch"
    /\ task[k].pc = "summarize"
    /\ \E out \in collab.summarize[i + k] :
          /\ task' = [task EXCEPT ![k] = Summarized(k, out)]
          /\ summarizeErr' = IF out = "err" THEN summarizeErr \cup {i + k}
                             ELSE summarizeErr
    /\ UNCHANGED <<targetURL, collab, cli, pure, options, ctxDone, pc, urls, i, allResults, ret, next, results,
                   mu, sem, egErr, egCancelled, mapCalls, mapRes, scrapeCalls,
                   summarizeCalls, taskRet, batchLog, waits, cancelledAt>>

\* Mutant of Item: the index passed to processURL is i, not startIndex+i.
ItemBatchIndex(k) == [URL |-> BatchURL(k), Title |-> task[k].title,
                      Description |-> task[k].description,
                      Markdown |-> task[k].markdown, Index |-> k]

\* The ProcessedURL processURL returned to goroutine k: Index is startIndex+i.
Item(k) == [URL |-> BatchURL(k), Title |-> task[k].title,
            Description |-> task[k].description,
            Markdown |-> task[k].markdown, Index |-> i + k]

\* Mutant of Acquire: no mutual exclusion, Lock returns at once.
AcquireNoMutex(k) == mu' = k

\* mu.Lock() returns to goroutine k.
Acquire(k) ==
    /\ mu = -1
    /\ mu' = k

\* mu.Lock(); append reads results (the slice header).
Lock(k) ==
    /\ pc = "batch"
    /\ task[k].pc = "lock"
    /\ Acquire(k)
    /\ task' = [task EXCEPT ![k].pc = "append", ![k].seen = results]
    /\ UNCHANGED <<targetURL, collab, cli, pure, options, ctxDone, pc, urls, i, allResults, ret, next, results,
                   sem, egErr, egCancelled, cancelledAt>>
    /\ UNCHANGED histVars

\* results = append(results, *result) writes the slice it read, one longer;
\* mu.Unlock(); return nil
AppendResult(k) ==
    /\ pc = "batch"
    /\ task[k].pc = "append"
    /\ results' = Append(task[k].seen, Item(k))
    /\ mu' = -1
    /\ GoroutineReturns(k, NoErr, "ok")
    /\ UNCHANGED <<targetURL, collab, cli, pure, options, ctxDone, pc, urls, i, allResults, ret, next,
                   mapCalls, mapRes, scrapeCalls, summarizeCalls, summarizeErr,
                   batchLog, waits, cancelledAt>>

\* ------------------------------------------------------------ rendering
\* fmt.Sprintf("%d", n) for n >= 0: the decimal digits of n.
Digit(d) == CASE d = 0 -> "0" [] d = 1 -> "1" [] d = 2 -> "2" [] d = 3 -> "3"
              [] d = 4 -> "4" [] d = 5 -> "5" [] d = 6 -> "6" [] d = 7 -> "7"
              [] d = 8 -> "8" [] d = 9 -> "9"

RECURSIVE Itoa(_)
Itoa(n) == IF n < 10 THEN <<Digit(n)>> ELSE Itoa(n \div 10) \o <<Digit(n % 10)>>

\* "- [%s](%s): %s\n"
Bullet(r) == <<"- [">> \o r.Title \o <<"](", r.URL, "): ">> \o r.Description
             \o <<"\n">>

RECURSIVE Bullets(_)
Bullets(rs) == IF rs = <<>> THEN <<>> ELSE Bullet(Head(rs)) \o Bullets(Tail(rs))

\* "# %s llms.txt\n\n", then one bullet per result.
buildLLMsTxt(target, rs) ==
    <<"# ">> \o target \o <<" llms.txt", "\n", "\n">> \o Bullets(rs)

\* "<|firecrawl-page-%d-lllmstxt|>\n## %s\n%s\n\n" for the n-th result rendered.
Page(n, r) == <<"<|firecrawl-page-">> \o Itoa(n) \o <<"-lllmstxt|>", "\n", "## ">>
              \o r.Title \o <<"\n">> \o r.Markdown \o <<"\n", "\n">>

\* Mutant of Pages: a page is numbered by the Index of its item.
RECURSIVE PagesByIndex(_, _)
PagesByIndex(n, rs) == IF rs = <<>> THEN <<>>
                       ELSE Page(Head(rs).Index + 1, Head(rs))
                            \o PagesByIndex(n + 1, Tail(rs))

RECURSIVE Pages(_, _)
Pages(n, rs) == IF rs = <<>> THEN <<>>
                ELSE Page(n, Head(rs)) \o Pages(n + 1, Tail(rs))

IsDigit(t) == t \in {"0", "1", "2", "3", "4", "5", "6", "7", "8", "9"}

\* Length of the match of \d+-lllmstxt\|>\n at the head of text, 0 if none.
RECURSIVE MatchDigits(_, _)
MatchDigits(text, seen) ==
    IF text # <<>> /\ IsDigit(Head(text)) THEN MatchDigits(Tail(text), seen + 1)
    ELSE IF seen > 0 /\ Len(text) >= 2 /\ text[1] = "-lllmstxt|>" /\ text[2] = "\n"
    THEN seen + 2
    ELSE 0

\* Length of the match of <\|firecrawl-page-\d+-lllmstxt\|>\n at the head of text.
MatchSeparator(text) ==
    IF text # <<>> /\ Head(text) = "<|firecrawl-page-"
    THEN LET m == MatchDigits(Tail(text), 0) IN IF m > 0 THEN m + 1 ELSE 0
    ELSE 0

\* re.ReplaceAllString(text, ""): leftmost, non-overlapping matches are dropped.
RECURSIVE removePageSeparators(_)
removePageSeparators(text) ==
    IF text = <<>> THEN <<>>
    ELSE LET m == MatchSeparator(text) IN
         IF m > 0 THEN removePageSeparators(SubSeq(text, m + 1, Len(text)))
         ELSE <<Head(text)>> \o removePageSeparators(Tail(text))

\* Mutant of FullTxt: with noFullText the separators are not written, instead
\* of being removed afterwards.
RECURSIVE PagesBare(_)
PagesBare(rs) ==
    IF rs = <<>> THEN <<>>
    ELSE <<"## ">> \o Head(rs).Title \o <<"\n">> \o Head(rs).Markdown
         \o <<"\n", "\n">> \o PagesBare(Tail(rs))
FullTxtBare(target, rs, noFullText) ==
    <<"# ">> \o target \o <<" llms-full.txt", "\n", "\n">>
    \o (IF noFullText THEN PagesBare(rs) ELSE Pages(1, rs))

\* "# %s llms-full.txt\n\n", then one page per result; separators are removed
\* when options.NoFullText is set.
FullTxt(target, rs, noFullText) ==
    LET content == <<"# ">> \o target \o <<" llms-full.txt", "\n", "\n">>
                   \o Pages(1, rs)
    IN IF noFullText THEN removePageSeparators(content) ELSE content

buildLLMsFullTxt(target, rs) == FullTxt(target, rs, options.NoFullText)

\* ------------------------------------------------------------ sorting
\* Mutant of Compare: every two items compare equal.
CompareEqual(r1, r2) == 0

\* cmp.Compare(url1.Index, url2.Index)
Compare(r1, r2) == IF r1.Index < r2.Index THEN -1
                   ELSE IF r1.Index > r2.Index THEN 1 ELSE 0

\* Mutant of SortFunc: the slice is left in append order.
SortFuncNone(rs) == rs

\* rs sorted, with r inserted before the first element that compares greater.
RECURSIVE Insert(_, _)
Insert(r, rs) == IF rs = <<>> THEN <<r>>
                 ELSE IF Compare(r, Head(rs)) < 0 THEN <<r>> \o rs
                 ELSE <<Head(rs)>> \o Insert(r, Tail(rs))

\* slices.SortFunc(allResults, ...): ascending by Compare.
RECURSIVE SortFunc(_)
SortFunc(rs) == IF rs = <<>> THEN <<>> ELSE Insert(Head(rs), SortFunc(Tail(rs)))

\* ------------------------------------------------------------ processBatch returns
\* if err := eg.Wait(); err != nil { return nil, err }; return results, nil
BatchResults == IF egErr # NoErr THEN <<>> ELSE results

\* Mutant of Accumulate: the batch is appended twice.
AccumulateTwice(all, batchResults) == all \o batchResults \o batchResults

\* Mutant of Accumulate: allResults = batchResults.
AccumulateOverwrite(all, batchResults) == batchResults

\* allResults = append(allResults, batchResults...)
Accumulate(all, batchResults) == all \o batchResults

\* The items of rs are in ascending order of Index.
InIndexOrder(rs) == \A a, b \in 1..Len(rs) : a < b => rs[a].Index < rs[b].Index

\* Mutant of GroupIdle: eg.Wait returns without waiting.
GroupIdleAtOnce == TRUE

\* g.wg.Wait() returns: every goroutine started by eg.Go has called done().
GroupIdle == sem = 0

\* Mutant of MoreBatches: the delay is waited after every batch.
MoreBatchesAlways == TRUE

\* if i+batchSize < len(urls): this batch is not the last.
MoreBatches == i + options.BatchSize < Len(urls)

\* The range loop is over and eg.Wait returns (every goroutine has returned):
\* processBatch returns; GenerateLLMsTXT logs the error if any, appends
\* batchResults to allResults and goes to the wait between batches, or to the
\* next iteration when this was the last batch.
Wait ==
    /\ pc = "batch"
    /\ next = BatchLen
    /\ GroupIdle
    /\ allResults' = Accumulate(allResults, BatchResults)
    /\ batchLog' = Append(batchLog, [startIndex |-> i, n |-> BatchLen,
                                     err |-> egErr, items |-> Len(BatchResults),
                                     inOrder |-> InIndexOrder(BatchResults)])
    /\ IF MoreBatches
       THEN /\ pc' = "select"
            /\ waits' = waits + 1
            /\ i' = i
       ELSE /\ pc' = "loop"
            /\ waits' = waits
            /\ i' = i + options.BatchSize
    /\ task' = NoTasks
    /\ next' = 0
    /\ results' = <<>>
    /\ mu' = -1
    /\ egErr' = NoErr
    /\ egCancelled' = FALSE
    /\ UNCHANGED <<targetURL, collab, cli, pure, options, ctxDone, urls, ret, sem, mapCalls, mapRes, scrapeCalls,
                   summarizeCalls, summarizeErr, taskRet, cancelledAt>>

\* ------------------------------------------------------------ the wait between batches
\* select { case <-ctx.Done(): ...; case <-time.After(BatchDelay): }
\* A select whose cases are both ready takes either one; time.After(d) is
\* ready at once when d <= 0.
TimerReady == options.BatchDelay <= 0

\* Mutant of NextIteration: the loop variable does not advance, the batch is
\* processed again.
NextIterationRepeat ==
    /\ pc' = "loop"
    /\ i' = i
    /\ UNCHANGED ret

\* The end of the loop body: i += batchSize.
NextIteration ==
    /\ pc' = "loop"
    /\ i' = i + options.BatchSize
    /\ UNCHANGED ret

\* The select takes case <-ctx.Done(): return nil, ctx.Err()
SelectDone ==
    /\ pc = "select"
    /\ ctxDone
    /\ ReturnErr(Canceled)
    /\ UNCHANGED <<targetURL, collab, cli, pure, options, ctxDone, urls, i, allResults, cancelledAt>>
    /\ UNCHANGED batchVars
    /\ UNCHANGED histVars

\* The select takes case <-time.After(...), ready when the select is entered.
SelectTimer ==
    /\ pc = "select"
    /\ TimerReady
    /\ NextIteration
    /\ UNCHANGED <<targetURL, collab, cli, pure, options, ctxDone, urls, allResults, cancelledAt>>
    /\ UNCHANGED batchVars
    /\ UNCHANGED histVars

\* No case is ready: the goroutine blocks in the select.
SelectBlock ==
    /\ pc = "select"
    /\ ~ctxDone
    /\ ~TimerReady
    /\ pc' = "blocked"
    /\ UNCHANGED <<targetURL, collab, cli, pure, options, ctxDone, urls, i, allResults, ret, cancelledAt>>
    /\ UNCHANGED batchVars
    /\ UNCHANGED histVars

\* The blocked select is woken by the first channel that becomes ready: the
\* timer, while the ctx is not cancelled ...
WakeTimer ==
    /\ pc = "blocked"
    /\ ~ctxDone
    /\ NextIteration
    /\ UNCHANGED <<targetURL, collab, cli, pure, options, ctxDone, urls, allResults, cancelledAt>>
    /\ UNCHANGED batchVars
    /\ UNCHANGED histVars

\* ... or the cancellation of the ctx.
WakeDone ==
    /\ pc = "blocked"
    /\ ctxDone
    /\ ReturnErr(Canceled)
    /\ UNCHANGED <<targetURL, collab, cli, pure, options, ctxDone, urls, i, allResults, cancelledAt>>
    /\ UNCHANGED batchVars
    /\ UNCHANGED histVars

\* ------------------------------------------------------------ the result
\* The loop is over: sort, build both texts, return the GenerationResult.
Result(sorted) ==
    [LLMsTxt |-> buildLLMsTxt(targetURL, sorted),
     LLMsFullTxt |-> buildLLMsFullTxt(targetURL, sorted),
     ProcessedCount |-> Len(sorted),
     TotalCount |-> Len(urls)]

Finish ==
    /\ pc = "loop"
    /\ i >= Len(urls)
    /\ allResults' = SortFunc(allResults)
    /\ ret' = [result |-> <<Result(allResults')>>, err |-> NoErr]
    /\ pc' = "done"
    /\ UNCHANGED <<targetURL, collab, cli, pure, options, ctxDone, urls, i, cancelledAt>>
    /\ UNCHANGED batchVars
    /\ UNCHANGED histVars

\* ------------------------------------------------------------ specification
\* Positions a goroutine of the current batch can have.
Tasks == DOMAIN task

Next ==
    \/ Cancel
    \/ MapWebsite
    \/ StartBatch
    \/ \E k \in Tasks : Go(k)
    \/ \E k \in Tasks : TaskCheck(k)
    \/ \E k \in Tasks : ProcessURLEnter(k)
    \/ \E k \in Tasks : Timeout(k)
    \/ \E k \in Tasks : Scrape(k)
    \/ \E k \in Tasks : BeforeSummarize(k)
    \/ \E k \in Tasks : Summarize(k)
    \/ \E k \in Tasks : Lock(k)
    \/ \E k \in Tasks : AppendResult(k)
    \/ Wait
    \/ SelectDone
    \/ SelectTimer
    \/ SelectBlock
    \/ WakeTimer
    \/ WakeDone
    \/ Finish

Spec == Init /\ [][Next]_vars

\* ------------------------------------------------------------ fairness
\* A step of GenerateLLMsTXT or of one of its goroutines that the Go scheduler
\* runs when it can run, or that ends a collaborator call or the timer of the
\* wait: every step of Next but the caller's cancellation and the expiry of a
\* deadline, which may never happen.
Progress ==
    \/ MapWebsite
    \/ StartBatch
    \/ \E k \in Tasks : Go(k)
    \/ \E k \in Tasks : TaskCheck(k)
    \/ \E k \in Tasks : ProcessURLEnter(k)
    \/ \E k \in Tasks : Scrape(k)
    \/ \E k \in Tasks : BeforeSummarize(k)
    \/ \E k \in Tasks : Summarize(k)
    \/ \E k \in Tasks : Lock(k)
    \/ \E k \in Tasks : AppendResult(k)
    \/ Wait
    \/ SelectDone
    \/ SelectTimer
    \/ SelectBlock
    \/ WakeTimer
    \/ WakeDone
    \/ Finish

\* GenerateLLMsTXT is called as in Init, by a generator with the full text
\* enabled and a delay of zero or more (a negative one acts as zero).
LiveInit ==
    /\ targetURL = ExampleTarget
    /\ collab = AnyCollab
    /\ cli = NoCLI
    /\ options \in {o \in Options : o.BatchDelay >= 0 /\ ~o.NoFullText}
    /\ pc = "map"
    /\ pure = NoPure
    /\ Fresh

\* A step that can be taken is taken in the end: runnable goroutines run,
\* collaborator calls return and timers fire.
LiveSpec == LiveInit /\ [][Next]_vars /\ WF_vars(Progress)

\* ------------------------------------------------------------ direct calls
\* Targets a program may pass to GenerateLLMsTXT: "https://ex.com" and
\* "ftp://" (neither an http/https scheme nor a host).
DirectTargets == {ExampleTarget, <<"ftp", ":", "/", "/">>}

\* The answer of MapWebsite when the site fixes it.
Mapped == CHOOSE out \in collab.map : TRUE

\* A program calls GenerateLLMsTXT with any of these targets, on a site whose
\* MapWebsite answer is fixed and whose ScrapeURL returns a body or an error
\* (SummarizeContent may answer anything), with the full text enabled.
DirectInit ==
    /\ targetURL \in DirectTargets
    /\ \E out \in MapOutcomes :
          collab = [AnyCollab EXCEPT
                       !.map = {out},
                       !.scrape = [p \in 0..(MaxURLsBound - 1) |-> {"ok", "err"}]]
    /\ cli = NoCLI
    /\ options \in {o \in Options : o.BatchDelay >= 0 /\ ~o.NoFullText}
    /\ pc = "map"
    /\ pure = NoPure
    /\ Fresh

DirectSpec == DirectInit /\ [][Next]_vars

\* ------------------------------------------------------------ rendering on its own
\* buildLLMsTxt and buildLLMsFullTxt applied to a sorted list of items, one of
\* which may carry any title and any body, marker-like text included.
MaxItems == 2
MaxFragments == 3

\* Pieces of text a page body is made of: plain text, a whole page separator,
\* the head of one and the tail of one.
Fragments == {<<"text">>,
              <<"<|firecrawl-page-", "7", "-lllmstxt|>", "\n">>,
              <<"<|firecrawl-page-", "7">>,
              <<"-lllmstxt|>">>}

\* The bodies of n fragments.
RECURSIVE Bodies(_)
Bodies(n) == IF n = 0 THEN {<<>>}
             ELSE {b \o f : b \in Bodies(n - 1), f \in Fragments}

\* Index values of n items sorted by Index: ascending, with or without gaps.
Ascending(n) == {idx \in [1..n -> 0..(2 * MaxItems - 1)] :
                    \A a, b \in 1..n : a < b => idx[a] < idx[b]}

\* The items at the Index values idx: the k-th has the title t and the body b,
\* the others are what processURL makes of their URL.
Items(idx, k, t, b) ==
    [j \in DOMAIN idx |->
        LET url == SiteURL(idx[j]) IN
        [URL |-> url, Index |-> idx[j], Description |-> DescriptionOf(url),
         Title |-> IF j = k THEN t ELSE TitleOf(url),
         Markdown |-> IF j = k THEN b ELSE Body(url)]]

\* Nothing is rendered yet.
NewRender(target, items) ==
    [pc |-> "render", target |-> target, items |-> items, LLMsTxt |-> <<>>,
     enabled |-> <<>>, suppressed |-> <<>>, stripped |-> <<>>]

RenderInit ==
    /\ \E target \in DirectTargets, n \in 0..MaxItems, m \in 0..MaxFragments :
          \E idx \in Ascending(n), k \in 0..n, b \in Bodies(m),
             t \in {FallbackTitle, <<"<|firecrawl-page-", "7", "-lllmstxt|>", "\n">>} :
                pure = NewRender(target, Items(idx, k, t, b))
    /\ targetURL = <<>>
    /\ collab = AnyCollab
    /\ cli = NoCLI
    /\ options = ZeroOptions
    /\ pc = "idle"
    /\ Fresh

\* Everything but pure.
programVars == <<targetURL, collab, cli, options, ctxDone, pc, urls, i, allResults,
                 ret, batchVars, histVars, cancelledAt>>

\* buildLLMsTxt, and buildLLMsFullTxt by a generator with the full text
\* enabled and by one with NoFullText set.
Render ==
    /\ pure.pc = "render"
    /\ pure' = [pure EXCEPT
                   !.pc = "rendered",
                   !.LLMsTxt = buildLLMsTxt(pure.target, pure.items),
                   !.enabled = FullTxt(pure.target, pure.items, FALSE),
                   !.suppressed = FullTxt(pure.target, pure.items, TRUE)]
    /\ UNCHANGED programVars

\* removePageSeparators applied to the text rendered with the full text enabled.
Strip ==
    /\ pure.pc = "rendered"
    /\ pure' = [pure EXCEPT !.pc = "stripped",
                            !.stripped = removePageSeparators(pure.enabled)]
    /\ UNCHANGED programVars

RenderNext ==
    \/ Render
    \/ Strip

RenderSpec == RenderInit /\ [][RenderNext]_vars

\* ------------------------------------------------------------ cmd: text utilities
\* A text is a sequence of characters here: a letter, the white space
\* characters " ", "\n" and U+00A0 (the no-break space, written "NBSP"), and
\* the pieces of a page separator.
MaxTextLen == 5
TextTokens == {"a", " ", "\n", "NBSP", "<|firecrawl-page-", "7", "-lllmstxt|>"}

\* White space for strings.TrimSpace (unicode.IsSpace), and for \s of regexp
\* (RE2: [\t\n\f\r ], not the no-break space).
UnicodeSpace == {" ", "\n", "NBSP"}
RegexpSpace == {" ", "\n"}

\* strings.TrimSpace
RECURSIVE TrimLeft(_)
TrimLeft(text) == IF text # <<>> /\ Head(text) \in UnicodeSpace
                  THEN TrimLeft(Tail(text)) ELSE text
RECURSIVE TrimRight(_)
TrimRight(text) == IF text # <<>> /\ text[Len(text)] \in UnicodeSpace
                   THEN TrimRight(SubSeq(text, 1, Len(text) - 1)) ELSE text
TrimSpace(text) == TrimRight(TrimLeft(text))

\* text without the white space (\s) it starts with.
RECURSIVE SkipSpace(_)
SkipSpace(text) == IF text # <<>> /\ Head(text) \in RegexpSpace
                   THEN SkipSpace(Tail(text)) ELSE text

\* regexp.MustCompile(`\s+`).ReplaceAllString(text, " ")
RECURSIVE ReplaceSpace(_)
ReplaceSpace(text) ==
    IF text = <<>> THEN <<>>
    ELSE IF Head(text) \in RegexpSpace
    THEN <<" ">> \o ReplaceSpace(SkipSpace(text))
    ELSE <<Head(text)>> \o ReplaceSpace(Tail(text))

\* CleanText: TrimSpace, then every run of white space becomes one space.
CleanText(text) == ReplaceSpace(TrimSpace(text))

\* Mutant of RemovePageSeparators: the pattern lacks the final \n, the marker
\* alone is removed.
RECURSIVE CountDigits(_)
CountDigits(text) == IF text # <<>> /\ IsDigit(Head(text))
                     THEN 1 + CountDigits(Tail(text)) ELSE 0
MatchMarker(text) ==
    IF text # <<>> /\ Head(text) = "<|firecrawl-page-"
    THEN LET d == CountDigits(Tail(text))
         IN IF d > 0 /\ Len(text) >= d + 2 /\ text[d + 2] = "-lllmstxt|>"
            THEN d + 2 ELSE 0
    ELSE 0
RECURSIVE RemoveMarkers(_)
RemoveMarkers(text) ==
    IF text = <<>> THEN <<>>
    ELSE LET m == MatchMarker(text) IN
         IF m > 0 THEN RemoveMarkers(SubSeq(text, m + 1, Len(text)))
         ELSE <<Head(text)>> \o RemoveMarkers(Tail(text))

\* RemovePageSeparators: the regexp and the replacement of
\* removePageSeparators.
RemovePageSeparators(text) == removePageSeparators(text)

\* Nothing is applied to the text s yet.
NewText(s) == [pc |-> "text", s |-> s, clean |-> <<>>, again |-> <<>>,
               removed |-> <<>>]

TextInit ==
    /\ \E n \in 0..MaxTextLen : \E s \in [1..n -> TextTokens] : pure = NewText(s)
    /\ targetURL = <<>>
    /\ collab = AnyCollab
    /\ cli = NoCLI
    /\ options = ZeroOptions
    /\ pc = "idle"
    /\ Fresh

\* CleanText(s)
Clean ==
    /\ pure.pc = "text"
    /\ pure' = [pure EXCEPT !.pc = "clean", !.clean = CleanText(pure.s)]
    /\ UNCHANGED programVars

\* CleanText(CleanText(s))
CleanAgain ==
    /\ pure.pc = "clean"
    /\ pure' = [pure EXCEPT !.pc = "again", !.again = CleanText(pure.clean)]
    /\ UNCHANGED programVars

\* RemovePageSeparators(s)
Remove ==
    /\ pure.pc = "again"
    /\ pure' = [pure EXCEPT !.pc = "removed",
                            !.removed = RemovePageSeparators(pure.s)]
    /\ UNCHANGED programVars

TextNext ==
    \/ Clean
    \/ CleanAgain
    \/ Remove

TextSpec == TextInit /\ [][TextNext]_vars

\* ------------------------------------------------------------ fixed collaborators
\* Collaborators whose answers are fixed: MapWebsite always gives the same
\* answer, ScrapeURL and SummarizeContent the same answer for the same URL
\* position (ScrapeURL a body or an error).
FixedCollabs ==
    {[map |-> {m}, scrape |-> [p \in DOMAIN f |-> {f[p]}],
      summarize |-> [p \in DOMAIN s |-> {s[p]}]] :
        m \in MapOutcomes,
        f \in [0..(MaxURLsBound - 1) -> {"ok", "err"}],
        s \in [0..(MaxURLsBound - 1) -> SummarizeOutcomes]}

\* GenerateLLMsTXT is called over fixed collaborators, with the full text
\* enabled and no delay between batches.
FixedInit ==
    /\ targetURL = ExampleTarget
    /\ collab \in FixedCollabs
    /\ cli = NoCLI
    /\ options \in {o \in Options : o.BatchDelay = 0 /\ ~o.NoFullText}
    /\ pc = "map"
    /\ pure = NoPure
    /\ Fresh

\* The steps of a run whose run-level ctx is never cancelled and in which no
\* timeout context expires: Next without Cancel and Timeout, and with the
\* one way through the select that is left (the timer is ready at once).
FixedNext ==
    \/ MapWebsite
    \/ StartBatch
    \/ \E k \in Tasks : Go(k)
    \/ \E k \in Tasks : TaskCheck(k)
    \/ \E k \in Tasks : ProcessURLEnter(k)
    \/ \E k \in Tasks : Scrape(k)
    \/ \E k \in Tasks : BeforeSummarize(k)
    \/ \E k \in Tasks : Summarize(k)
    \/ \E k \in Tasks : Lock(k)
    \/ \E k \in Tasks : AppendResult(k)
    \/ Wait
    \/ SelectTimer
    \/ Finish

FixedSpec == FixedInit /\ [][FixedNext]_vars

\* ------------------------------------------------------------ net/url
\* A raw URL is a sequence of tokens: words (letters and dots), runs of
\* digits, ":" and "/".
MaxArgLen == 5
Words == {"http", "HTTPS", "ftp", "ex.com"}
IsWord(t) == t \in Words \cup {"https", "www."}
UrlTokens == Words \cup {"80", ":", "/"}

\* strings.ToLower of a token.
ToLower(t) == IF t = "HTTPS" THEN "https" ELSE t

\* url.getScheme: the index of the ":" that ends the scheme; 0 when the URL
\* has no scheme (it starts with a digit, or a "/" or the end comes before any
\* ":"); -1 for the error "missing protocol scheme" (":" comes first).
RECURSIVE SchemeColon(_, _)
SchemeColon(raw, j) ==
    IF j > Len(raw) THEN 0
    ELSE IF raw[j] = ":" THEN (IF j = 1 THEN -1 ELSE j)
    ELSE IF IsWord(raw[j]) \/ (IsDigit(raw[j]) /\ j > 1) THEN SchemeColon(raw, j + 1)
    ELSE 0

\* strings.Index and strings.LastIndex of the token t in text: 0 if absent.
Index(text, t) ==
    IF \E j \in 1..Len(text) : text[j] = t
    THEN CHOOSE j \in 1..Len(text) :
             text[j] = t /\ \A h \in 1..(j - 1) : text[h] # t
    ELSE 0
LastIndex(text, t) ==
    IF \E j \in 1..Len(text) : text[j] = t
    THEN CHOOSE j \in 1..Len(text) :
             text[j] = t /\ \A h \in (j + 1)..Len(text) : text[h] # t
    ELSE 0

\* url.validOptionalPort of host[i:], i the last ":" of host: digits only.
ValidOptionalPort(host) ==
    \A j \in (LastIndex(host, ":") + 1)..Len(host) : IsDigit(host[j])

\* The zero url.URL, and a failed url.Parse.
EmptyURL == [err |-> NoErr, Scheme |-> <<>>, Opaque |-> <<>>, Host |-> <<>>,
             Path |-> <<>>, OmitHost |-> FALSE]
ParseError == [EmptyURL EXCEPT !.err = "parse"]

\* url.parse after the scheme: rest is what follows "scheme:".
ParseRest(scheme, rest) ==
    IF rest = <<>> \/ Head(rest) # "/"
    THEN IF scheme # <<>>
         THEN [EmptyURL EXCEPT !.Scheme = scheme, !.Opaque = rest]
         ELSE LET slash == Index(rest, "/")
                  segment == IF slash = 0 THEN rest ELSE SubSeq(rest, 1, slash - 1)
              IN IF Index(segment, ":") > 0 THEN ParseError
                 ELSE [EmptyURL EXCEPT !.Path = rest]
    ELSE IF /\ Len(rest) >= 2 /\ rest[2] = "/"
            /\ (scheme # <<>> \/ ~(Len(rest) >= 3 /\ rest[3] = "/"))
    THEN LET after == SubSeq(rest, 3, Len(rest))
             slash == Index(after, "/")
             authority == IF slash = 0 THEN after ELSE SubSeq(after, 1, slash - 1)
             path == IF slash = 0 THEN <<>> ELSE SubSeq(after, slash, Len(after))
         IN IF LastIndex(authority, ":") > 0 /\ ~ValidOptionalPort(authority)
            THEN ParseError
            ELSE [EmptyURL EXCEPT !.Scheme = scheme, !.Host = authority,
                                  !.Path = path]
    ELSE [EmptyURL EXCEPT !.Scheme = scheme, !.Path = rest,
                          !.OmitHost = (scheme # <<>>)]

\* url.Parse(rawURL): the scheme is lowered; Host is "host" or "host:port".
Parse(raw) ==
    LET c == SchemeColon(raw, 1)
    IN IF c = -1 THEN ParseError
       ELSE IF c = 0 THEN ParseRest(<<>>, raw)
       ELSE ParseRest([j \in 1..(c - 1) |-> ToLower(raw[j])],
                      SubSeq(raw, c + 1, Len(raw)))

\* (*url.URL).String()
String(u) ==
    (IF u.Scheme # <<>> THEN u.Scheme \o <<":">> ELSE <<>>)
    \o (IF u.Opaque # <<>> THEN u.Opaque
        ELSE (IF (u.Scheme # <<>> \/ u.Host # <<>>)
                 /\ ~(u.OmitHost /\ u.Host = <<>>)
                 /\ (u.Host # <<>> \/ u.Path # <<>>)
              THEN <<"/", "/">> ELSE <<>>)
             \o u.Host \o u.Path)

\* (*url.URL).Hostname(): Host without the port.
Hostname(u) ==
    LET colon == LastIndex(u.Host, ":")
    IN IF colon > 0 THEN SubSeq(u.Host, 1, colon - 1) ELSE u.Host

\* strings.TrimPrefix(text, "www."): "www." is a token of its own.
TrimPrefix(text) == IF text # <<>> /\ Head(text) = "www." THEN Tail(text) ELSE text

\* generator.ParseDomainFromURL(rawURL): the host name without a leading
\* "www.", or the error of url.Parse.
ParseDomainFromURL(rawURL) ==
    LET parsedURL == Parse(rawURL)
    IN IF parsedURL.err # NoErr THEN [domain |-> <<>>, err |-> "parse URL"]
       ELSE [domain |-> TrimPrefix(Hostname(parsedURL)), err |-> NoErr]

\* ------------------------------------------------------------ cmd: normalizeURL
\* normalizeURL(rawURL): the normalized URL, or an error.
normalizeURL(rawURL) ==
    LET parsedURL == Parse(rawURL)
        err == IF rawURL = <<>> THEN "URL cannot be empty"
               ELSE IF parsedURL.err # NoErr THEN "parse URL"
               ELSE IF parsedURL.Scheme = <<>> THEN "URL must include a scheme"
               ELSE IF parsedURL.Scheme \notin {<<"http">>, <<"https">>}
               THEN "URL scheme must be http or https"
               ELSE IF parsedURL.Host = <<>> THEN "URL must include a host"
               ELSE NoErr
    IN [url |-> IF err = NoErr THEN String(parsedURL) ELSE <<>>, err |-> err]


\* ------------------------------------------------------------ config
\* Values of a config.Config (the fields generate reads): the API keys may be
\* empty, the model may be one detectClientFromModel does not know, and the
\* numbers may be negative, zero or positive.
Configs == [FirecrawlAPIKey : {"", "fc-key"}, OpenAIAPIKey : {"", "sk-key"},
            OpenAIModel : {"gpt-4.1-mini", "llama"},
            MaxURLs : {-1, 0, 2}, BatchSize : {-1, 0, 1}, MaxWorkers : {-1, 0, 1},
            MaxContentLength : {-1, 0, 4000}, BatchDelay : {0, 1},
            NoFullText : BOOLEAN]

\* Mutant of Validate: the max-workers check is missing.
ValidateNoMaxWorkers(c) ==
    IF c.FirecrawlAPIKey = "" THEN "Firecrawl API key not provided"
    ELSE IF c.OpenAIAPIKey = "" THEN "OpenAI API key not provided"
    ELSE IF c.MaxURLs <= 0 THEN "max-urls must be greater than 0"
    ELSE IF c.BatchSize <= 0 THEN "batch-size must be greater than 0"
    ELSE IF c.MaxContentLength < 0
    THEN "max-content-length must be greater than or equal to 0"
    ELSE NoErr

\* (*Config).Validate: the first failing check decides the error.
Validate(c) ==
    IF c.FirecrawlAPIKey = "" THEN "Firecrawl API key not provided"
    ELSE IF c.OpenAIAPIKey = "" THEN "OpenAI API key not provided"
    ELSE IF c.MaxURLs <= 0 THEN "max-urls must be greater than 0"
    ELSE IF c.BatchSize <= 0 THEN "batch-size must be greater than 0"
    ELSE IF c.MaxWorkers <= 0 THEN "max-workers must be greater than 0"
    ELSE IF c.MaxContentLength < 0
    THEN "max-content-length must be greater than or equal to 0"
    ELSE NoErr

\* ------------------------------------------------------------ cmd: generate
\* What os.Stat finds at cfg.OutputDir.
Dirs == {"dir", "file", "missing"}

\* args[0]: the raw URLs of n tokens, n up to MaxArgLen.
Args(n) == [1..n -> UrlTokens]

\* generate is entered with the config cfg, args[0] = arg, and dir at
\* cfg.OutputDir: nothing is constructed, nothing is written.
NewCLI(c, arg, dir) ==
    [pc |-> "validate", cfg |-> c, arg |-> arg, dir |-> dir, err |-> NoErr,
     made |-> {}, files |-> {}]

\* options := generator.GenerationOptions{...}, copied from cfg.
OptionsOf(c) == [MaxURLs |-> c.MaxURLs, BatchSize |-> c.BatchSize,
                 MaxWorkers |-> c.MaxWorkers, BatchDelay |-> c.BatchDelay,
                 NoFullText |-> c.NoFullText]

\* generate returns err.
Exit(e) == cli' = [cli EXCEPT !.pc = "exit", !.err = e]

genVars == <<ctxDone, pc, urls, i, allResults, ret, cancelledAt>>

\* if err := cfg.Validate(); err != nil { return ... }
CheckConfig ==
    /\ cli.pc = "validate"
    /\ IF Validate(cli.cfg) # NoErr
       THEN Exit("configuration validation failed")
       ELSE cli' = [cli EXCEPT !.pc = "normalize"]
    /\ UNCHANGED <<targetURL, collab, pure, options>>
    /\ UNCHANGED <<genVars, batchVars, histVars>>

\* targetURL, err = normalizeURL(args[0])
NormalizeTarget ==
    /\ cli.pc = "normalize"
    /\ LET n == normalizeURL(cli.arg)
       IN IF n.err # NoErr
          THEN Exit("normalize URL") /\ UNCHANGED targetURL
          ELSE cli' = [cli EXCEPT !.pc = "stat"] /\ targetURL' = n.url
    /\ UNCHANGED <<collab, pure, options>>
    /\ UNCHANGED <<genVars, batchVars, histVars>>

\* stat, err := os.Stat(cfg.OutputDir); MkdirAll when it does not exist (it
\* may fail); then stat.IsDir() is called: stat is nil when os.Stat failed,
\* and the call panics.
StatOutputDir ==
    /\ cli.pc = "stat"
    /\ \/ /\ cli.dir = "dir"
          /\ cli' = [cli EXCEPT !.pc = "construct"]
       \/ /\ cli.dir = "file"
          /\ Exit("output-dir exist but not directory")
       \/ /\ cli.dir = "missing"
          /\ \E made \in BOOLEAN :
                IF made THEN cli' = [cli EXCEPT !.pc = "panic", !.dir = "dir"]
                ELSE Exit("create output directory")
    /\ UNCHANGED <<targetURL, collab, pure, options>>
    /\ UNCHANGED <<genVars, batchVars, histVars>>

\* detectClientFromModel knows the model (the prefixes gpt-, claude-, ...).
KnownModel(model) == model = "gpt-4.1-mini"

\* NewFirecrawlClient (an error when the key is empty), detectClientFromModel
\* (a panic when the model is unknown), NewLLMsTxtGenerator with the options
\* copied from cfg, and the call of gen.GenerateLLMsTXT(cmd.Context(), targetURL).
NewClients ==
    /\ cli.pc = "construct"
    /\ IF cli.cfg.FirecrawlAPIKey = ""
       THEN Exit("initialize FirecrawlApp") /\ UNCHANGED <<options, pc>>
       ELSE IF ~KnownModel(cli.cfg.OpenAIModel)
       THEN /\ cli' = [cli EXCEPT !.pc = "panic", !.made = {"firecrawl"}]
            /\ UNCHANGED <<options, pc>>
       ELSE /\ cli' = [cli EXCEPT !.pc = "generate",
                                  !.made = {"firecrawl", "summarizer"}]
            /\ options' = OptionsOf(cli.cfg)
            /\ pc' = "map"
    /\ UNCHANGED <<targetURL, collab, pure, ctxDone, urls, i, allResults, ret,
                   cancelledAt>>
    /\ UNCHANGED <<batchVars, histVars>>

\* GenerateLLMsTXT has returned: its error is returned, wrapped; else
\* ParseDomainFromURL(targetURL), whose error is returned.
Generated ==
    /\ cli.pc = "generate"
    /\ pc = "done"
    /\ IF ret.err # NoErr THEN Exit("generate llms.txt")
       ELSE IF ParseDomainFromURL(targetURL).err # NoErr
       THEN Exit("extract domain from URL")
       ELSE cli' = [cli EXCEPT !.pc = "write"]
    /\ UNCHANGED <<targetURL, collab, pure, options>>
    /\ UNCHANGED <<genVars, batchVars, histVars>>

\* A file of the output directory: its name and what was written to it.
File(domain, suffix, data) == [name |-> domain \o <<suffix>>, data |-> data]

\* Mutant of AfterSummary: the full text is written whatever NoFullText is.
AfterSummaryAlways(noFullText) == "writeFull"

\* if !cfg.NoFullText { ... }: where generate goes once llms.txt is saved.
AfterSummary(noFullText) == IF noFullText THEN "exit" ELSE "writeFull"

\* os.WriteFile of {domain}-llms.txt with result.LLMsTxt (it may fail).
WriteLLMsTxt ==
    /\ cli.pc = "write"
    /\ \E ok \in BOOLEAN :
          IF ~ok THEN Exit("write llms.txt file")
          ELSE cli' = [cli EXCEPT
                          !.files = @ \cup {File(ParseDomainFromURL(targetURL).domain,
                                                 "-llms.txt", ret.result[1].LLMsTxt)},
                          !.pc = AfterSummary(cli.cfg.NoFullText)]
    /\ UNCHANGED <<targetURL, collab, pure, options>>
    /\ UNCHANGED <<genVars, batchVars, histVars>>

\* if !cfg.NoFullText: os.WriteFile of {domain}-llms-full.txt with
\* result.LLMsFullTxt (it may fail); return nil.
WriteLLMsFullTxt ==
    /\ cli.pc = "writeFull"
    /\ \E ok \in BOOLEAN :
          IF ~ok THEN Exit("write llms-full.txt file")
          ELSE cli' = [cli EXCEPT
                          !.files = @ \cup {File(ParseDomainFromURL(targetURL).domain,
                                                 "-llms-full.txt",
                                                 ret.result[1].LLMsFullTxt)},
                          !.pc = "exit"]
    /\ UNCHANGED <<targetURL, collab, pure, options>>
    /\ UNCHANGED <<genVars, batchVars, histVars>>

\* The config generate is checked with for every args[0]: a valid one, with
\* the full text enabled.
UsualConfig(c) ==
    /\ Validate(c) = NoErr
    /\ KnownModel(c.OpenAIModel)
    /\ c.MaxContentLength = 4000
    /\ c.BatchDelay = 0
    /\ ~c.NoFullText

\* A target whose host starts with "www.": "https://www.ex.com".
WwwTarget == <<"https", ":", "/", "/", "www.", "ex.com">>

\* The command is run (Execute calls generate): with any config, the target
\* "https://ex.com" and anything at OutputDir, or with the usual config, a
\* directory at OutputDir and any args[0] or "https://www.ex.com".
Execute ==
    /\ cli.pc = "start"
    /\ \/ \E c \in Configs, dir \in Dirs : cli' = NewCLI(c, ExampleTarget, dir)
       \/ \E c \in {d \in Configs : UsualConfig(d)}, n \in 0..MaxArgLen :
             \E arg \in Args(n) : cli' = NewCLI(c, arg, "dir")
       \/ \E c \in {d \in Configs : UsualConfig(d)} :
             cli' = NewCLI(c, WwwTarget, "dir")
    /\ UNCHANGED <<targetURL, collab, pure, options>>
    /\ UNCHANGED <<genVars, batchVars, histVars>>

\* The process has started: the command has not run, no generator exists.
CliInit ==
    /\ cli = [pc |-> "start"]
    /\ targetURL = <<>>
    /\ collab = AnyCollab
    /\ options = ZeroOptions
    /\ pc = "idle"
    /\ pure = NoPure
    /\ Fresh

CliNext ==
    \/ Execute
    \/ CheckConfig
    \/ NormalizeTarget
    \/ StatOutputDir
    \/ NewClients
    \/ Generated
    \/ WriteLLMsTxt
    \/ WriteLLMsFullTxt
    \/ Next

CliSpec == CliInit /\ [][CliNext]_vars


\* ------------------------------------------------------------ the body and the summarizer
\* processURL passes scrapedData.Markdown to SummarizeContent and stores it in
\* the ProcessedURL.  Here a body is a sequence of bytes, of 1..MaxBodyLen
\* bytes (processURL rejects the empty body), and the summarizer is built
\* with a maxContentLength of 0..MaxBodyLen+1.
MaxBodyLen == 4
Bytes == {"a", "b"}

\* Mutant of TruncateContent: the content is cut whatever maxContentLength is.
TruncateContentAlways(content, maxContentLength) ==
    SubSeq(content, 1, Min(Len(content), maxContentLength))

\* if c.maxContentLength > 0 && len(content) > c.maxContentLength {
\*     content = content[:c.maxContentLength] }
TruncateContent(content, maxContentLength) ==
    IF maxContentLength > 0 /\ Len(content) > maxContentLength
    THEN SubSeq(content, 1, maxContentLength)
    ELSE content

\* processURL holds the scrapedData of a URL: nothing is summarized yet.
\* content is the parameter of SummarizeContent, sent the content of the
\* request it builds, item the ProcessedURL and full the text rendered from it.
NewContent(markdown, maxContentLength) ==
    [pc |-> "scraped", url |-> SiteURL(0), body |-> markdown,
     markdown |-> markdown, maxContentLength |-> maxContentLength,
     content |-> <<>>, sent |-> <<>>, item |-> <<>>, full |-> <<>>]

ContentInit ==
    /\ \E n \in 1..MaxBodyLen, maxContentLength \in 0..(MaxBodyLen + 1) :
          \E markdown \in [1..n -> Bytes] :
             pure = NewContent(markdown, maxContentLength)
    /\ targetURL = ExampleTarget
    /\ collab = AnyCollab
    /\ cli = NoCLI
    /\ options = ZeroOptions
    /\ pc = "idle"
    /\ Fresh

\* g.openaiClient.SummarizeContent(ctx, prompt, scrapedData.Markdown): the
\* string is passed by value.
CallSummarizeContent ==
    /\ pure.pc = "scraped"
    /\ pure' = [pure EXCEPT !.pc = "called", !.content = pure.markdown]
    /\ UNCHANGED programVars

\* fmt.Sprintf("%s\n\nPage content:\n%s", prompt.User, content)
UserMessage(url, content) ==
    <<"user prompt for ", url, "\n", "\n", "Page content:", "\n">> \o content

\* SummarizeContent cuts its content and puts it in the request.
SendContent ==
    /\ pure.pc = "called"
    /\ pure' = [pure EXCEPT
                   !.pc = "sent",
                   !.content = TruncateContent(pure.content, pure.maxContentLength),
                   !.sent = UserMessage(pure.url,
                               TruncateContent(pure.content, pure.maxContentLength))]
    /\ UNCHANGED programVars

\* SummarizeContent returns, with a title or an error; processURL returns
\* &ProcessedURL{..., Markdown: scrapedData.Markdown, ...}.
MakeItem ==
    /\ pure.pc = "sent"
    /\ \E out \in SummarizeOutcomes :
          pure' = [pure EXCEPT
                      !.pc = "item",
                      !.item = <<[URL |-> pure.url, Index |-> 0,
                                  Title |-> IF out = "err" THEN FallbackTitle
                                            ELSE TitleOf(pure.url),
                                  Description |-> IF out = "err"
                                                  THEN FallbackDescription
                                                  ELSE DescriptionOf(pure.url),
                                  Markdown |-> pure.markdown]>>]
    /\ UNCHANGED programVars

\* buildLLMsFullTxt of the one item, with the full text enabled.
RenderItem ==
    /\ pure.pc = "item"
    /\ pure' = [pure EXCEPT !.pc = "rendered",
                            !.full = FullTxt(targetURL, pure.item, FALSE)]
    /\ UNCHANGED programVars

ContentNext ==
    \/ CallSummarizeContent
    \/ SendContent
    \/ MakeItem
    \/ RenderItem

ContentSpec == ContentInit /\ [][ContentNext]_vars

\* ------------------------------------------------------------ properties
\* GenerateLLMsTXT has returned a GenerationResult.
ReturnedResult == pc = "done" /\ ret.err = NoErr /\ ret.result # <<>>
TheResult == ret.result[1]

\* The Index values of the items of rs, and how often p occurs among them.
Indices(rs) == {rs[j].Index : j \in 1..Len(rs)}
Occurrences(rs, p) == Cardinality({j \in 1..Len(rs) : rs[j].Index = p})

\* Positions p and q belong to the same batch.
SameBatch(p, q) == p \div options.BatchSize = q \div options.BatchSize

\* Positions whose whole batch succeeded: the goroutine of every position of
\* the batch returned nil.
InSucceededBatch == {p \in Positions :
                        \A q \in Positions : SameBatch(p, q) => taskRet[q] = NoErr}

\* The items of the set its, one per position from p on, in position order.
RECURSIVE ByPosition(_, _)
ByPosition(its, p) ==
    IF p >= Len(urls) THEN <<>>
    ELSE LET at == {r \in its : r.Index = p}
         IN (IF at = {} THEN <<>> ELSE <<CHOOSE r \in at : TRUE>>)
            \o ByPosition(its, p + 1)

ItemSet(rs) == {rs[j] : j \in 1..Len(rs)}

\* C1: whenever GenerateLLMsTXT returns a result, the items both texts are
\* rendered from are in strictly ascending order of Index (no Index twice),
\* whatever order the goroutines completed in: the summary's bullets and the
\* full text's pages are those of the items taken in position order.
C1_RenderedInIndexOrder ==
    ReturnedResult =>
        /\ \A a, b \in 1..Len(allResults) :
              a < b => allResults[a].Index < allResults[b].Index
        /\ TheResult.LLMsTxt =
              buildLLMsTxt(targetURL, ByPosition(ItemSet(allResults), 0))
        /\ TheResult.LLMsFullTxt =
              buildLLMsFullTxt(targetURL, ByPosition(ItemSet(allResults), 0))

\* A result was returned after a batch whose goroutines completed out of
\* position order.
C1_Witness ==
    /\ ReturnedResult
    /\ Len(allResults) >= 2
    /\ \E j \in 1..Len(batchLog) : batchLog[j].err = NoErr /\ ~batchLog[j].inOrder

BatchPositions(j) ==
    batchLog[j].startIndex..(batchLog[j].startIndex + batchLog[j].n - 1)

\* C3: processBatch is all-or-nothing.  Every call that has returned gave
\* either no error and exactly one item per URL of its batch (each position of
\* the batch exactly once, with that position's URL), or an error and no item;
\* and while a batch runs, the shared slice holds exactly one item for each
\* goroutine that has appended and returned nil: no append is lost or doubled.
C3_BatchAllOrNothing ==
    /\ \A j \in 1..Len(batchLog) :
          /\ batchLog[j].err = NoErr => batchLog[j].items = batchLog[j].n
          /\ batchLog[j].err # NoErr => batchLog[j].items = 0
          /\ \A p \in BatchPositions(j) :
                /\ Occurrences(allResults, p) =
                      IF batchLog[j].err = NoErr THEN 1 ELSE 0
                /\ \A r \in ItemSet(allResults) : r.Index = p => r.URL = urls[p + 1]
    /\ \A k \in Tasks :
          Occurrences(results, i + k) =
             IF task[k].pc = "returned" /\ taskRet[i + k] = NoErr THEN 1 ELSE 0
    /\ Len(results) = Cardinality(Indices(results))

\* processBatch returned an error and no item for a batch of three URLs in
\* which a goroutine had already appended its result.
C3_Witness ==
    \E j \in 1..Len(batchLog) :
        /\ batchLog[j].n = 3
        /\ batchLog[j].err # NoErr
        /\ batchLog[j].items = 0
        /\ \E p \in BatchPositions(j) : taskRet[p] = NoErr

\* (len(urls)+batchSize-1)/batchSize, the total_batches of the log line.
TotalBatches == (Len(urls) + options.BatchSize - 1) \div options.BatchSize

\* C4: a failed batch does not abort the run.  When GenerateLLMsTXT has
\* returned after a successful discovery and the run-level ctx was never
\* cancelled, it returned a result and no error, it called processBatch for
\* every batch, in order, whether earlier batches failed or not, and the result
\* holds the items of every batch that succeeded.
C4_FailedBatchNotFatal ==
    (pc = "done" /\ mapRes = "urls" /\ ~ctxDone) =>
        /\ ret.err = NoErr
        /\ ret.result # <<>>
        /\ Len(batchLog) = TotalBatches
        /\ \A j \in 1..Len(batchLog) :
              /\ batchLog[j].startIndex = (j - 1) * options.BatchSize
              /\ batchLog[j].err = NoErr =>
                    BatchPositions(j) \subseteq Indices(allResults)

\* An uncancelled run returned a result that holds the items of a batch that
\* succeeded before, and of one that succeeded after, a batch that failed.
C4_Witness ==
    /\ ReturnedResult
    /\ ~ctxDone
    /\ \E a, b, c \in 1..Len(batchLog) :
          /\ a < b /\ b < c
          /\ batchLog[a].err = NoErr
          /\ batchLog[b].err # NoErr
          /\ batchLog[c].err = NoErr
          /\ BatchPositions(a) \cup BatchPositions(c) \subseteq Indices(allResults)

\* C5 (as claimed): a run whose ctx was cancelled while a batch was in
\* progress, and one of whose batches failed with the cancellation error,
\* returns the cancellation error and no result: it never returns a result.
C5_CancelDuringBatchIsFatal ==
    (/\ pc = "done"
     /\ cancelledAt = "batch"
     /\ \E j \in 1..Len(batchLog) : batchLog[j].err = Canceled)
    => (ret.err = Canceled /\ ret.result = <<>>)

\* C6: a goroutine whose SummarizeContent call returned an error holds the
\* fallback title and description, never returns an error, and appends an item
\* with the fallback text; such an item is in the result, and counted in
\* ProcessedCount, whenever its batch succeeded.
C6_SummarizeErrorFallsBack ==
    /\ \A k \in Tasks :
          (i + k) \in summarizeErr =>
             \/ /\ task[k].pc \in {"lock", "append"}
                /\ task[k].title = <<"Page">>
                /\ task[k].description = <<"No description available">>
             \/ /\ task[k].pc = "returned"
                /\ (i + k) \in Indices(results)
    /\ \A p \in summarizeErr : taskRet[p] # "error"
    /\ \A r \in ItemSet(results) \cup ItemSet(allResults) :
          r.Index \in summarizeErr =>
             /\ r.Title = <<"Page">>
             /\ r.Description = <<"No description available">>
    /\ ReturnedResult =>
          /\ summarizeErr \cap InSucceededBatch \subseteq Indices(allResults)
          /\ TheResult.ProcessedCount = Cardinality(Indices(allResults))

\* A result was returned that holds an item whose summarization failed.
C6_Witness ==
    /\ ReturnedResult
    /\ \E r \in ItemSet(allResults) :
          /\ r.Index \in summarizeErr
          /\ r.Title = <<"Page">>
          /\ r.Markdown # <<>>

\* C7: when ScrapeURL returned an error, a nil result or an empty body to a
\* goroutine, the goroutine has returned a non-nil error, it appended no item,
\* and SummarizeContent was not called for its URL; no position for which
\* SummarizeContent was never called has an item.
C7_ScrapeFailureIsAnError ==
    /\ \A k \in Tasks :
          task[k].scraped \in {"err", "nil", "empty"} =>
             /\ task[k].pc = "returned"
             /\ taskRet[i + k] = "error"
             /\ egErr # NoErr
             /\ summarizeCalls[i + k] = 0
             /\ (i + k) \notin Indices(results)
    /\ \A p \in Positions :
          summarizeCalls[p] = 0 => p \notin Indices(allResults) \cup Indices(results)

\* ScrapeURL has returned an empty body with no error to one goroutine of the
\* batch and (nil, nil) to another.
C7_Witness ==
    \E k, l \in Tasks :
        /\ task[k].scraped = "empty"
        /\ task[l].scraped = "nil"
        /\ scrapeCalls[i + k] = 1

\* C8 (as claimed): when the ctx is cancelled while GenerateLLMsTXT is at
\* the wait between two batches (also when it was cancelled before the wait
\* began, whatever the delay), the wait ends with GenerateLLMsTXT returning
\* the cancellation error and no result: it does not go on to a further batch.
C8_CancelledWaitIsFatal ==
    [][(pc \in {"select", "blocked"} /\ ctxDone /\ pc' # pc) =>
          (pc' = "done" /\ ret'.err = Canceled /\ ret'.result = <<>>)]_vars

\* The goroutines of the batch that have started and not returned.
InFlight == {k \in Tasks : task[k].pc \notin {"unsubmitted", "returned"}}

\* C9: at every moment of processBatch at most MaxWorkers goroutines have
\* started and not yet returned.
C9_AtMostMaxWorkersInFlight ==
    Cardinality(InFlight) <= options.MaxWorkers

\* Both of two workers are busy (one of them in its SummarizeContent
\* call) while a URL of the batch still waits for a worker.
C9_Witness ==
    /\ options.MaxWorkers = 2
    /\ Cardinality(InFlight) = 2
    /\ next < BatchLen
    /\ \E k \in Tasks : task[k].pc = "summarize"

\* C10: when MapWebsite returned an error or an empty list, GenerateLLMsTXT
\* has returned a non-nil error and a nil result, processBatch was never
\* called and neither ScrapeURL nor SummarizeContent was ever called.
C10_DiscoveryFailureIsFatal ==
    mapRes \in {"err", "empty"} =>
        /\ pc = "done"
        /\ ret.err # NoErr
        /\ ret.result = <<>>
        /\ batchLog = <<>>
        /\ Tasks = {}
        /\ \A p \in DOMAIN scrapeCalls : scrapeCalls[p] = 0
        /\ \A p \in DOMAIN summarizeCalls : summarizeCalls[p] = 0

\* MapWebsite returned an empty list and no error, and the run has ended.
C10_Witness ==
    /\ mapRes = "empty"
    /\ mapCalls = 1
    /\ pc = "done"
    /\ ret.err = "no URLs found for the website"

\* ------------------------------------------------------------ C11 .. C20
\* The error kind the specification names for a malformed target.
InvalidInput == "invalid input"

\* The target lacks an http/https scheme or a non-empty host.
InvalidTarget(t) ==
    LET u == Parse(t)
    IN \/ u.err # NoErr
       \/ u.Scheme \notin {<<"http">>, <<"https">>}
       \/ Hostname(u) = <<>>

\* C11: GenerateLLMsTXT, called with a target that lacks an http/https scheme
\* or a non-empty host, returns an InvalidInput error as its first step and
\* never calls MapWebsite.
C11_InvalidTargetFailsFast ==
    (InvalidTarget(targetURL) /\ pc # "map") =>
        /\ pc = "done"
        /\ ret.result = <<>>
        /\ ret.err = InvalidInput
        /\ mapCalls = 0

\* generate has not called any collaborator: GenerateLLMsTXT was not entered.
NoCollaboratorCalled == pc = "idle" /\ mapCalls = 0 /\ scrapeCalls = <<>>
                        /\ summarizeCalls = <<>>

\* C12: when generate runs with a valid config and a target that is empty, has
\* no scheme, has a scheme other than http or https, or has no host, then once
\* it is past normalizeURL it has returned the "normalize URL" error, having
\* constructed no collaborator, called none and written no file.
C12_InvalidTargetRejected ==
    (/\ cli.pc \notin {"start", "validate", "normalize"}
     /\ Validate(cli.cfg) = NoErr
     /\ InvalidTarget(cli.arg))
    => (/\ cli.pc = "exit"
        /\ cli.err = "normalize URL"
        /\ cli.made = {}
        /\ cli.files = {}
        /\ NoCollaboratorCalled)

\* C13: once MapWebsite has returned a non-empty list L without error, urls
\* is the prefix of L of length min(len(L), MaxURLs), no longer than MaxURLs;
\* every goroutine works on a URL of that prefix and ScrapeURL is counted at
\* positions of the prefix only; TotalCount of a returned result is
\* min(len(L), MaxURLs).
C13_ProcessedListIsPrefix ==
    mapRes = "urls" =>
        LET L == Mapped.urls
            n == Min(Len(L), options.MaxURLs) IN
        /\ urls = SubSeq(L, 1, n)
        /\ Len(urls) <= options.MaxURLs
        /\ \A k \in Tasks : i + k < n /\ BatchURL(k) = L[i + k + 1]
        /\ DOMAIN scrapeCalls = 0..(n - 1)
        /\ ReturnedResult => TheResult.TotalCount = n

\* MapWebsite over-returned, the last URL of the prefix was scraped, and a
\* result was returned.
C13_Witness ==
    /\ ReturnedResult
    /\ Len(Mapped.urls) > options.MaxURLs
    /\ TheResult.TotalCount = options.MaxURLs
    /\ scrapeCalls[options.MaxURLs - 1] > 0
    /\ TheResult.ProcessedCount >= 1

\* What a run over fixed collaborators is expected to return, as a function
\* of the target, the options and the collaborators' answers alone.
FetchOf(p) == CHOOSE out \in collab.scrape[p] : TRUE
SummaryOf(p) == CHOOSE out \in collab.summarize[p] : TRUE
ExpectedCount == Min(Len(Mapped.urls), options.MaxURLs)
ExpectedPositions ==
    {p \in 0..(ExpectedCount - 1) :
        \A q \in 0..(ExpectedCount - 1) : SameBatch(p, q) => FetchOf(q) = "ok"}
ExpectedItem(p) ==
    LET url == Mapped.urls[p + 1] IN
    [URL |-> url, Index |-> p, Markdown |-> Body(url),
     Title |-> IF SummaryOf(p) = "ok" THEN TitleOf(url) ELSE FallbackTitle,
     Description |-> IF SummaryOf(p) = "ok" THEN DescriptionOf(url)
                     ELSE FallbackDescription]
RECURSIVE ExpectedItems(_)
ExpectedItems(p) ==
    IF p >= ExpectedCount THEN <<>>
    ELSE (IF p \in ExpectedPositions THEN <<ExpectedItem(p)>> ELSE <<>>)
         \o ExpectedItems(p + 1)
Expected ==
    IF Mapped.err # NoErr THEN [result |-> <<>>, err |-> "map website"]
    ELSE IF Mapped.urls = <<>>
    THEN [result |-> <<>>, err |-> "no URLs found for the website"]
    ELSE [result |-> <<[LLMsTxt |-> buildLLMsTxt(targetURL, ExpectedItems(0)),
                        LLMsFullTxt |-> buildLLMsFullTxt(targetURL, ExpectedItems(0)),
                        ProcessedCount |-> Cardinality(ExpectedPositions),
                        TotalCount |-> ExpectedCount]>>,
          err |-> NoErr]

\* C15: with the target, the options, the discovery list and the per-URL
\* answers of ScrapeURL and SummarizeContent fixed, and with no cancellation
\* and no expired timeout, what GenerateLLMsTXT returns (both texts,
\* ProcessedCount, TotalCount, or the error) is the same in every run: it is
\* a function of those inputs, whatever the order in which the goroutines
\* run, complete or fail.
C15_ResultIndependentOfSchedule == pc = "done" => ret = Expected

\* A result was returned after a batch whose goroutines completed out of
\* order, a batch that failed, and a SummarizeContent error.
C15_Witness ==
    /\ ReturnedResult
    /\ \E j \in 1..Len(batchLog) : batchLog[j].err = NoErr /\ ~batchLog[j].inOrder
    /\ \E j \in 1..Len(batchLog) : batchLog[j].err # NoErr
    /\ summarizeErr # {}

\* C14: every GenerationResult that GenerateLLMsTXT returns has
\* 0 <= ProcessedCount <= TotalCount, and at no moment of a run does allResults
\* hold more items than urls has URLs.
C14_ProcessedAtMostTotal ==
    /\ Len(allResults) <= Len(urls)
    /\ ReturnedResult =>
          /\ 0 <= TheResult.ProcessedCount
          /\ TheResult.ProcessedCount <= TheResult.TotalCount

\* A result after a failed batch and a failed SummarizeContent, out of order
\* completion included: some URLs, not all, were processed.
C14_Witness ==
    /\ ReturnedResult
    /\ 0 < TheResult.ProcessedCount
    /\ TheResult.ProcessedCount < TheResult.TotalCount
    /\ summarizeErr # {}
    /\ \E j \in 1..Len(batchLog) : batchLog[j].err # NoErr
    /\ \E j \in 1..Len(batchLog) : batchLog[j].err = NoErr /\ ~batchLog[j].inOrder

\* A page separator (the marker followed by a line break) occurs in text.
ContainsSeparator(text) ==
    \E j \in 1..Len(text) : MatchSeparator(SubSeq(text, j, Len(text))) > 0

\* C16: for any target and any list of items, removing the page separators
\* from the full text rendered with NoFullText = false gives exactly the full
\* text that rendering the same items with NoFullText = true returns.
C16_StripEqualsSuppressed ==
    pure.pc = "stripped" => pure.stripped = pure.suppressed

\* Two items were rendered, one of them with a page separator in its body, and
\* stripping changed the text.
C16_Witness ==
    /\ pure.pc = "stripped"
    /\ Len(pure.items) = 2
    /\ \E j \in 1..2 : ContainsSeparator(pure.items[j].Markdown)
    /\ pure.stripped # pure.enabled
    /\ pure.stripped = pure.suppressed

\* C17: the full text rendered with NoFullText set contains no page separator
\* (no marker followed by a line break), whatever the titles and bodies of
\* the items, bodies with marker-like text included.
C17_NoSeparatorWhenSuppressed ==
    pure.pc # "render" => ~ContainsSeparator(pure.suppressed)

\* The texts of the elements of the sequence parts, one after the other.
RECURSIVE Flatten(_, _)
Flatten(parts, n) == IF n = 0 THEN <<>> ELSE Flatten(parts, n - 1) \o parts[n]

\* C18: the summary is the header line and a blank line followed by exactly
\* one bullet "- [title](url): description" per item, in the order of the
\* sorted list; the full text (full text enabled) is its header followed, per
\* item in that order, by the marker numbered with the item's 1-based place
\* in the list (1..ProcessedCount, whatever the Index values), a "## title"
\* line, the body and a blank line.
C18_ArtifactLayout ==
    pure.pc # "render" =>
        LET its == pure.items
            bullet == [j \in 1..Len(its) |->
                         <<"- [">> \o its[j].Title \o <<"](", its[j].URL, "): ">>
                         \o its[j].Description \o <<"\n">>]
            page == [j \in 1..Len(its) |->
                       <<"<|firecrawl-page-">> \o Itoa(j) \o <<"-lllmstxt|>", "\n">>
                       \o <<"## ">> \o its[j].Title \o <<"\n">>
                       \o its[j].Markdown \o <<"\n", "\n">>]
        IN /\ pure.LLMsTxt = <<"# ">> \o pure.target \o <<" llms.txt", "\n", "\n">>
                              \o Flatten(bullet, Len(its))
           /\ pure.enabled = <<"# ">> \o pure.target
                              \o <<" llms-full.txt", "\n", "\n">>
                              \o Flatten(page, Len(its))

\* Two items were rendered whose Index values leave gaps (the first is not 0,
\* the second does not follow the first).
C18_Witness ==
    /\ pure.pc # "render"
    /\ Len(pure.items) = 2
    /\ pure.items[1].Index > 0
    /\ pure.items[2].Index > pure.items[1].Index + 1
    /\ pure.enabled # <<>>

\* text is normalized: no white space at either end, and every white space
\* (\s) in it is a single space between two other characters.
Normalized(text) ==
    /\ text # <<>> => text[1] \notin UnicodeSpace /\ text[Len(text)] \notin UnicodeSpace
    /\ \A j \in 1..Len(text) :
          text[j] \in RegexpSpace =>
              text[j] = " " /\ (j < Len(text) => text[j + 1] \notin RegexpSpace)

\* C19: CleanText(CleanText(s)) = CleanText(s) for every text s, CleanText(s)
\* is normalized, and a normalized s is returned unchanged;
\* RemovePageSeparators(s) = s for every s in which no page separator occurs.
C19_TextUtilitiesFixedPoints ==
    /\ pure.pc \in {"again", "removed"} => pure.again = pure.clean
    /\ pure.pc # "text" =>
          /\ Normalized(pure.clean)
          /\ Normalized(pure.s) => pure.clean = pure.s
    /\ (pure.pc = "removed" /\ ~ContainsSeparator(pure.s)) => pure.removed = pure.s

\* CleanText changed a text with a run of white space, and
\* RemovePageSeparators was applied to that text, which holds a marker that no
\* line break follows (no separator).
C19_Witness ==
    /\ pure.pc = "removed"
    /\ pure.clean # pure.s
    /\ Len(pure.clean) >= 3
    /\ \E j \in 1..(Len(pure.s) - 1) :
          pure.s[j] \in RegexpSpace /\ pure.s[j + 1] \in RegexpSpace
    /\ pure.again = pure.clean
    /\ ~ContainsSeparator(pure.s)
    /\ \E j \in 1..Len(pure.s) : MatchMarker(SubSeq(pure.s, j, Len(pure.s))) > 0

\* The conditions under which the specification says a config is rejected.
Rejected(c) ==
    \/ c.FirecrawlAPIKey = ""
    \/ c.OpenAIAPIKey = ""
    \/ c.MaxURLs <= 0
    \/ c.BatchSize <= 0
    \/ c.MaxWorkers <= 0
    \/ c.MaxContentLength < 0

\* C20 (state part): Validate returns an error exactly for a rejected config;
\* generate has done nothing before it calls Validate; when Validate fails,
\* generate returns that error having constructed and called no collaborator;
\* GenerateLLMsTXT runs only under a config that Validate accepted, with the
\* options copied from it.
C20_Validated ==
    cli.pc # "start" =>
        /\ (Validate(cli.cfg) # NoErr) <=> Rejected(cli.cfg)
        /\ cli.pc = "validate" =>
               cli.made = {} /\ cli.files = {} /\ NoCollaboratorCalled
        /\ (cli.pc # "validate" /\ Validate(cli.cfg) # NoErr) =>
               /\ cli.pc = "exit"
               /\ cli.err = "configuration validation failed"
               /\ cli.made = {} /\ cli.files = {}
               /\ NoCollaboratorCalled
        /\ pc # "idle" =>
               Validate(cli.cfg) = NoErr /\ options = OptionsOf(cli.cfg)

\* C20: the pipeline is started only with a validated config (C20_Validated
\* in every state), and once the generator holds its options, no step of the
\* run changes them.
C20_ValidatedThenReadOnly ==
    /\ []C20_Validated
    /\ [][pc # "idle" => options' = options]_vars

\* generate returned the validation error for a config whose only fault is a
\* negative MaxContentLength (the last check of Validate).
C20_Witness ==
    /\ cli.pc = "exit"
    /\ cli.err = "configuration validation failed"
    /\ cli.cfg.MaxContentLength < 0
    /\ cli.cfg.FirecrawlAPIKey # "" /\ cli.cfg.OpenAIAPIKey # ""
    /\ cli.cfg.MaxURLs > 0 /\ cli.cfg.BatchSize > 0 /\ cli.cfg.MaxWorkers > 0

\* ------------------------------------------------------------ C21 .. C30
\* C21 (state part): MapWebsite has been called exactly once as soon as
\* GenerateLLMsTXT is past its first statement; ScrapeURL and SummarizeContent
\* have been called at most once for every position of the truncated list;
\* SummarizeContent has been called for a position only if ScrapeURL was
\* called for it and returned a body.
C21_AtMostOnce ==
    /\ mapCalls = (IF pc = "map" THEN 0 ELSE 1)
    /\ \A p \in Positions :
          /\ scrapeCalls[p] <= 1
          /\ summarizeCalls[p] <= 1
          /\ summarizeCalls[p] <= scrapeCalls[p]
    /\ \A k \in Tasks :
          summarizeCalls[i + k] = 1 =>
             task[k].scraped = "ok" /\ task[k].pc # "scrape"

\* C21 (step part): SummarizeContent is called for a position only by the
\* goroutine that holds that position's body, and no collaborator is called for
\* a position whose goroutine has returned (with an error or not): nothing is
\* retried, in the same batch or in a later one.
C21_NoCallAfterReturn ==
    \A p \in Positions :
        /\ p \in DOMAIN summarizeCalls' /\ summarizeCalls'[p] > summarizeCalls[p] =>
              /\ (p - i) \in Tasks
              /\ task[p - i].pc = "scraped"
              /\ task[p - i].scraped = "ok"
        /\ taskRet[p] # "none" =>
              /\ scrapeCalls'[p] = scrapeCalls[p]
              /\ summarizeCalls'[p] = summarizeCalls[p]
              /\ taskRet'[p] = taskRet[p]

\* C21: there is no retry (C21_AtMostOnce in every state, C21_NoCallAfterReturn
\* at every step).
C21_NoRetry ==
    /\ []C21_AtMostOnce
    /\ [][C21_NoCallAfterReturn]_vars

\* A run has ended in which one URL failed in its fetch, one was cancelled
\* with its batch before its fetch, and a later batch succeeded: each was
\* fetched at most once.
C21_Witness ==
    /\ pc = "done"
    /\ \E p, q, r \in Positions :
          /\ taskRet[p] = "error" /\ scrapeCalls[p] = 1
          /\ taskRet[q] = "error" /\ scrapeCalls[q] = 0 /\ SameBatch(p, q)
          /\ r > p /\ r > q /\ taskRet[r] = NoErr /\ summarizeCalls[r] = 1

\* The names of the files generate has written, and the two names the run
\* of generate can write.
FileNames == {f.name : f \in cli.files}
SummaryFiles == {f \in cli.files : f.name[Len(f.name)] = "-llms.txt"}
FullFiles == {f \in cli.files : f.name[Len(f.name)] = "-llms-full.txt"}

\* generate has returned nil.
Succeeded == cli.pc = "exit" /\ cli.err = NoErr

\* C22: on the CLI path a file exists only once GenerateLLMsTXT has returned a
\* result, and it holds a text of that result; a run of generate that returns
\* nil has written {domain}-llms.txt, and {domain}-llms-full.txt if and only if
\* NoFullText is not set; the full text is only written after the summary;
\* when GenerateLLMsTXT returns an error, generate returns it and no file is
\* written.  The domain of "https://ex.com" and of "https://www.ex.com" is
\* "ex.com".
C22_FilesOnlyAfterResult ==
    cli.pc \notin {"start", "none"} =>
        /\ cli.files = SummaryFiles \cup FullFiles
        /\ Cardinality(SummaryFiles) <= 1 /\ Cardinality(FullFiles) <= 1
        /\ cli.files # {} =>
              /\ ReturnedResult
              /\ cli.pc \in {"writeFull", "exit"}
              /\ \A f \in SummaryFiles : f.data = TheResult.LLMsTxt
              /\ \A f \in FullFiles : f.data = TheResult.LLMsFullTxt
              /\ \A f \in cli.files :
                    SubSeq(f.name, 1, Len(f.name) - 1) =
                       TrimPrefix(Hostname(Parse(cli.arg)))
              /\ cli.arg \in {ExampleTarget, WwwTarget} =>
                    FileNames \subseteq {<<"ex.com", "-llms.txt">>,
                                         <<"ex.com", "-llms-full.txt">>}
        /\ cli.pc = "writeFull" => SummaryFiles # {} /\ ~cli.cfg.NoFullText
        /\ FullFiles # {} => SummaryFiles # {} /\ ~cli.cfg.NoFullText
        /\ Succeeded =>
              /\ SummaryFiles # {}
              /\ FullFiles # {} <=> ~cli.cfg.NoFullText
        /\ (pc = "done" /\ ret.err # NoErr /\ cli.pc # "generate") =>
              /\ cli.pc = "exit"
              /\ cli.err = "generate llms.txt"
              /\ cli.files = {}
        /\ cli.err # "extract domain from URL"

\* generate returned nil with NoFullText set, after a run that processed
\* a page: the only file is ex.com-llms.txt.
C22_Witness ==
    /\ Succeeded
    /\ cli.cfg.NoFullText
    /\ TheResult.ProcessedCount >= 1
    /\ FileNames = {<<"ex.com", "-llms.txt">>}

\* C23 (state part): goroutines exist only inside a processBatch call, the
\* errgroup counts exactly the goroutines that have started and not returned,
\* the running call is the one for the batch after those that have returned
\* (one batch at a time), and none is running when GenerateLLMsTXT has returned.
C23_OneBatchAtATime ==
    /\ pc # "batch" => Tasks = {} /\ sem = 0
    /\ pc = "batch" =>
          /\ sem = Cardinality(InFlight)
          /\ Len(batchLog) = i \div options.BatchSize
          /\ \A j \in 1..Len(batchLog) : batchLog[j].startIndex < i
    /\ pc = "done" => InFlight = {}

\* C23 (step part): processBatch returns, with or without an error, only when
\* every goroutine it started has returned, and a batch starts only when no
\* goroutine exists.
C23_ReturnsWhenDrained ==
    /\ (pc = "batch" /\ pc' # "batch") =>
          /\ \A k \in Tasks : task[k].pc = "returned"
          /\ Len(batchLog') = Len(batchLog) + 1
    /\ (pc # "batch" /\ pc' = "batch") =>
          /\ Tasks = {}
          /\ \A k \in DOMAIN task' : task'[k].pc = "unsubmitted"

\* C23: batches never overlap.
C23_BatchesNeverOverlap ==
    /\ []C23_OneBatchAtATime
    /\ [][C23_ReturnsWhenDrained]_vars

\* A goroutine of the second batch is running after a first batch failed
\* in which two URLs had been fetched.
C23_Witness ==
    /\ pc = "batch"
    /\ i >= 2
    /\ InFlight # {}
    /\ batchLog[1].err # NoErr
    /\ batchLog[1].n >= 2
    /\ scrapeCalls[0] = 1 /\ scrapeCalls[1] = 1

\* The goroutines of the batch that have returned an error.
Failed == {k \in Tasks : task[k].pc = "returned" /\ task[k].err # NoErr}

\* C24 (state part): the group's ctx is cancelled by the group exactly when a
\* goroutine of the batch has returned an error; a goroutine that has not
\* passed its first check has called no collaborator; with MaxWorkers = 1 no
\* URL of the batch after a failed one has been fetched or summarized.
C24_CancelledByFirstError ==
    pc = "batch" =>
        /\ egCancelled <=> Failed # {}
        /\ egErr # NoErr <=> Failed # {}
        /\ \A k \in Tasks :
              task[k].pc \in {"unsubmitted", "started"} =>
                 scrapeCalls[i + k] = 0 /\ summarizeCalls[i + k] = 0
        /\ options.MaxWorkers = 1 =>
              \A k \in Failed : \A l \in Tasks :
                  l > k => /\ scrapeCalls[i + l] = 0
                           /\ summarizeCalls[i + l] = 0
                           /\ task[l].pc = "returned" => task[l].err = Canceled

\* C24 (step part): a goroutine that has not passed its first check when the
\* group's ctx is cancelled can only return, with the cancellation error, and
\* no collaborator is called for its URL.
C24_LateStartReturnsAtOnce ==
    \A k \in Tasks :
        (pc = "batch" /\ egCancelled /\ task[k].pc \in {"unsubmitted", "started"}) =>
            /\ k \in DOMAIN task'
            /\ task'[k].pc \in {"unsubmitted", "started", "returned"}
            /\ task'[k].pc = "returned" => task'[k].err = Canceled
            /\ scrapeCalls'[i + k] = 0
            /\ summarizeCalls'[i + k] = 0

\* C24: after the first error of a batch, goroutines that start return the
\* cancellation error without calling a collaborator.
C24_FirstErrorCancelsPeers ==
    /\ []C24_CancelledByFirstError
    /\ [][C24_LateStartReturnsAtOnce]_vars

\* With one worker and a batch of three URLs: the first was processed, the
\* fetch of the second failed, and the third returned the cancellation error
\* without being fetched.
C24_Witness ==
    /\ pc = "batch"
    /\ options.MaxWorkers = 1
    /\ BatchLen = 3
    /\ ~ctxDone
    /\ task[0].pc = "returned" /\ task[0].err = NoErr
    /\ task[1].pc = "returned" /\ task[1].err = "scrape URL"
    /\ task[2].pc = "returned" /\ task[2].err = Canceled
    /\ scrapeCalls[i + 2] = 0

\* C25 (as claimed): a goroutine whose ctx (the run's or the group's) is
\* cancelled while its SummarizeContent call is in progress leaves that call
\* by returning the cancellation error, having produced no item: it does not
\* go on to append an item, with the fallback text or any other.
C25_CancelDuringSummarizeAborts ==
    [][\A k \in Tasks :
          (/\ pc = "batch"
           /\ task[k].pc = "summarize"
           /\ GroupDone
           /\ k \in DOMAIN task'
           /\ task'[k].pc # "summarize")
          => (/\ task'[k].pc = "returned"
              /\ task'[k].err = Canceled
              /\ results' = results)]_vars

\* C26 (state part): a deadline belongs to one goroutine and runs only from
\* WithTimeout on; a goroutine that returned the deadline error was fetched
\* once, never summarized, appended no item and made its batch fail; a batch
\* that failed with the deadline error gave no item, as any failed batch; and
\* a run whose ctx was never cancelled returns a result after processing every
\* batch, whatever deadlines expired.
C26_DeadlineFailsTheItem ==
    /\ \A k \in Tasks :
          /\ task[k].expired => task[k].pc \in {"scrape", "scraped", "summarize"}
          /\ (task[k].pc = "returned" /\ task[k].err = DeadlineExceeded) =>
                /\ scrapeCalls[i + k] = 1
                /\ summarizeCalls[i + k] = 0
                /\ (i + k) \notin Indices(results)
                /\ taskRet[i + k] = "error"
                /\ egErr # NoErr
                /\ egCancelled
    /\ \A j \in 1..Len(batchLog) :
          batchLog[j].err = DeadlineExceeded =>
             /\ batchLog[j].items = 0
             /\ BatchPositions(j) \cap Indices(allResults) = {}
    /\ (pc = "done" /\ mapRes = "urls" /\ ~ctxDone) =>
          /\ ReturnedResult
          /\ Len(batchLog) = TotalBatches

\* C26 (step part): the expiry of a deadline cancels neither the run ctx nor
\* the group's; a goroutine whose deadline has expired before its
\* SummarizeContent call can only return an error, without an item and without
\* that call.
C26_ExpiredBeforeSummarize ==
    \A k \in Tasks :
        /\ (k \in DOMAIN task' /\ task'[k].expired /\ ~task[k].expired) =>
              /\ ctxDone' = ctxDone
              /\ egCancelled' = egCancelled
              /\ \A l \in Tasks \ {k} : task'[l] = task[l]
        /\ (pc = "batch" /\ task[k].expired /\ task[k].pc \in {"scrape", "scraped"}) =>
              /\ k \in DOMAIN task'
              /\ task'[k].pc \in {"scrape", "scraped", "returned"}
              /\ task'[k].pc = "returned" =>
                    task'[k].err \in {"scrape URL", DeadlineExceeded}
              /\ summarizeCalls'[i + k] = 0
              /\ (i + k) \notin Indices(results')

C27_IndexIsListPosition ==
    /\ \A r \in ItemSet(results) :
          /\ r.Index \in i..(BatchEnd - 1)
          /\ (r.Index - i) \in Tasks
    /\ \A r \in ItemSet(allResults) :
          r.Index \in Positions /\ (pc = "batch" => r.Index < i)
    /\ \A r \in ItemSet(results) \cup ItemSet(allResults) :
          r.URL = urls[r.Index + 1]
    /\ \A p \in Positions :
          Occurrences(results, p) + Occurrences(allResults, p) <= 1
    /\ \A k \in Tasks :
          (task[k].pc = "returned" /\ task[k].err = NoErr) =>
             \E r \in ItemSet(results) :
                 /\ r.Index = i + k
                 /\ r.URL = urls[i + k + 1]
                 /\ r.Markdown = Body(urls[i + k + 1])

\* A result holds one item for each of three URLs, processed in two batches,
\* the goroutines of one of which completed out of position order.
C27_Witness ==
    /\ ReturnedResult
    /\ Len(urls) = 3
    /\ Len(batchLog) = 2
    /\ Indices(allResults) = {0, 1, 2}
    /\ \E j \in 1..2 : ~batchLog[j].inOrder
    /\ allResults[2].URL = "https://ex.com/b"

\* ceil(n / b) for n >= 0 and b >= 1.
Ceil(n, b) == CHOOSE c \in 0..n : (c - 1) * b < n /\ n <= c * b

\* The number of URLs of the j-th of the batches a list of n URLs splits into.
SizeOfBatch(j, n, b) == IF j < Ceil(n, b) THEN b ELSE n - (Ceil(n, b) - 1) * b

\* C28: the processBatch calls of a run are for consecutive, disjoint batches
\* of the truncated list, in order: the j-th starts at (j-1)*BatchSize, where
\* the one before ended, and has BatchSize URLs, except that the last of the
\* ceil(n/BatchSize) has the 1..BatchSize URLs that remain; there are never
\* more calls than that, and exactly that many when a result is returned (the
\* batches then cover the list); a list shorter than BatchSize is one batch,
\* and a list of a multiple of BatchSize URLs has only full batches.
C28_BatchesPartitionTheList ==
    mapRes = "urls" =>
        LET n == Len(urls)
            b == options.BatchSize
        IN /\ n >= 1 /\ b >= 1
           /\ Len(batchLog) <= Ceil(n, b)
           /\ \A j \in 1..Len(batchLog) :
                 /\ batchLog[j].startIndex = (j - 1) * b
                 /\ batchLog[j].n = SizeOfBatch(j, n, b)
                 /\ batchLog[j].n \in 1..b
                 /\ j < Ceil(n, b) => batchLog[j].n = b
                 /\ j > 1 => batchLog[j].startIndex =
                                batchLog[j - 1].startIndex + batchLog[j - 1].n
           /\ pc = "batch" =>
                 /\ i = Len(batchLog) * b
                 /\ BatchLen = SizeOfBatch(Len(batchLog) + 1, n, b)
                 /\ Tasks = 0..(BatchLen - 1)
           /\ ReturnedResult =>
                 /\ Len(batchLog) = Ceil(n, b)
                 /\ batchLog[Len(batchLog)].startIndex + batchLog[Len(batchLog)].n = n
           /\ n < b => Ceil(n, b) = 1
           /\ n % b = 0 => \A j \in 1..Len(batchLog) : batchLog[j].n = b

\* A result was returned for three URLs and batch size 2: a batch of two
\* URLs, then a short batch of one.
C28_Witness ==
    /\ ReturnedResult
    /\ Len(urls) = 3
    /\ options.BatchSize = 2
    /\ Len(batchLog) = 2
    /\ batchLog[1].n = 2
    /\ batchLog[2].n = 1
    /\ batchLog[2].startIndex = 2

\* C29 (state part): once discovery succeeded, one wait has begun for each
\* batch processed that is not the last, and none for the last; GenerateLLMsTXT
\* is at a wait only after a batch that is not the last; a run whose ctx was
\* never cancelled ends with k batches processed and k - 1 waits.
C29_WaitsBetweenBatches ==
    mapRes = "urls" =>
        /\ waits = Min(Len(batchLog), TotalBatches - 1)
        /\ pc \in {"select", "blocked"} =>
              /\ waits = Len(batchLog)
              /\ Len(batchLog) < TotalBatches
        /\ (pc = "done" /\ ~ctxDone) =>
              /\ Len(batchLog) = TotalBatches
              /\ waits = TotalBatches - 1

\* C29 (step part): when processBatch returns, with or without an error, the
\* wait begins if and only if a batch remains; after the last batch the loop
\* ends and the result is assembled with no wait; a wait begins at no other
\* moment.
C29_WaitOnlyAfterNonLastBatch ==
    /\ (pc = "batch" /\ pc' # "batch") =>
          /\ Len(batchLog') < TotalBatches => (pc' = "select" /\ waits' = waits + 1)
          /\ Len(batchLog') = TotalBatches =>
                (pc' = "loop" /\ waits' = waits /\ i' >= Len(urls))
    /\ waits' # waits => (pc = "batch" /\ pc' = "select")
    /\ (pc = "loop" /\ i >= Len(urls) /\ pc' # pc) => (pc' = "done" /\ waits' = waits)

\* C29: the inter-batch delay is waited between consecutive batches only.
C29_DelayOnlyBetweenBatches ==
    /\ []C29_WaitsBetweenBatches
    /\ [][C29_WaitOnlyAfterNonLastBatch]_vars

\* A run of three batches that was never cancelled has ended after two waits,
\* the first of them after a batch that failed, the second after one that
\* succeeded, with a positive delay.
C29_Witness ==
    /\ pc = "done"
    /\ ~ctxDone
    /\ options.BatchDelay > 0
    /\ Len(batchLog) = 3
    /\ waits = 2
    /\ batchLog[1].err # NoErr
    /\ batchLog[2].err = NoErr

\* text is the first n elements of whole.
IsPrefix(text, whole, n) ==
    /\ Len(text) = n
    /\ n <= Len(whole)
    /\ \A j \in 1..n : text[j] = whole[j]

\* C30: whatever maxContentLength is, the body processURL holds is the one
\* ScrapeURL returned, before and after the SummarizeContent call; the item
\* stores that body, and the page rendered from the item shows it whole,
\* between the title line and the blank line; the content the summarizer
\* sends is the first maxContentLength bytes of the body when
\* maxContentLength > 0 and the body is longer, and the whole body otherwise
\* (maxContentLength = 0 included).
C30_BodyStoredVerbatim ==
    pure.pc \in {"scraped", "called", "sent", "item", "rendered"} =>
        LET body == pure.body
            m == pure.maxContentLength
        IN /\ pure.markdown = body
           /\ pure.pc = "called" => pure.content = body
           /\ pure.pc \in {"sent", "item", "rendered"} =>
                 /\ (m > 0 /\ Len(body) > m) => IsPrefix(pure.content, body, m)
                 /\ (m = 0 \/ Len(body) <= m) => pure.content = body
                 /\ SubSeq(pure.sent, 7, Len(pure.sent)) = pure.content
                 /\ pure.sent[5] = "Page content:"
           /\ pure.pc \in {"item", "rendered"} =>
                 /\ Len(pure.item) = 1
                 /\ pure.item[1].Markdown = body
           /\ pure.pc = "rendered" =>
                 LET n == Len(pure.full)
                 IN /\ n >= Len(body) + 3
                    /\ SubSeq(pure.full, n - 1 - Len(body), n - 2) = body
                    /\ pure.full[n - 2 - Len(body)] = "\n"
                    /\ pure.full[n - 1] = "\n" /\ pure.full[n] = "\n"

\* A body of four bytes was summarized by a client with maxContentLength 2:
\* two bytes were sent, and the page rendered shows the four.
C30_Witness ==
    /\ pure.pc = "rendered"
    /\ pure.maxContentLength = 2
    /\ Len(pure.body) = 4
    /\ Len(pure.content) = 2
    /\ pure.content # SubSeq(pure.body, 3, 4)
    /\ Len(pure.item[1].Markdown) = 4

\* ------------------------------------------------------------ C31 .. C33
\* Positions a goroutine of a batch can have.
TaskIds == 0..(MaxBatchSize - 1)

\* C31: with steps that are taken when they can be (LiveSpec), GenerateLLMsTXT
\* returns in the end, for every list, every answer of the collaborators and a
\* cancellation at any moment; a goroutine waiting for the result lock gets
\* it or the batch ends, eg.Go waiting for a worker slot starts its goroutine,
\* and the loop leaves every value of i.
C31_EventuallyReturns ==
    /\ <>(pc = "done")
    /\ \A k \in TaskIds :
          (k \in Tasks /\ task[k].pc = "lock") ~>
             (k \notin Tasks \/ task[k].pc # "lock")
    /\ \A k \in TaskIds :
          (pc = "batch" /\ next = k /\ k < BatchLen /\ ~SemFree) ~>
             (pc # "batch" \/ next > k)
    /\ \A j \in 0..(MaxURLsBound - 1) :
          (pc \in {"loop", "batch", "select", "blocked"} /\ i = j) ~>
             (pc = "done" \/ i > j)

\* In a batch of three URLs with two workers, one goroutine holds the result
\* lock, the other waits for it, and eg.Go waits for a worker slot, after the
\* run ctx was cancelled.
C31_Witness ==
    /\ pc = "batch"
    /\ BatchLen = 3
    /\ next = 2
    /\ ~SemFree
    /\ ctxDone
    /\ \E k, l \in Tasks : task[k].pc = "append" /\ mu = k /\ task[l].pc = "lock"

\* C32: on the CLI path, when the output directory does not exist, generate
\* creates it and goes on to construct the clients and run the pipeline; the
\* step fails only with "create output directory" when MkdirAll fails.
C32_MissingDirIsCreated ==
    [][(cli.pc = "stat" /\ cli.dir = "missing" /\ cli'.pc # "stat")
          => \/ cli'.pc = "construct" /\ cli'.dir = "dir"
             \/ cli'.pc = "exit" /\ cli'.err = "create output directory"]_vars

\* C33: no item with an empty Markdown body is ever in a batch's result
\* collection or in the accumulated results, and no goroutine that is about
\* to append (waiting for mu, or holding it) carries an empty body.
C33_NoEmptyBody ==
    /\ \A r \in ItemSet(results) \cup ItemSet(allResults) : r.Markdown # <<>>
    /\ \A k \in Tasks :
          task[k].pc \in {"scraped", "summarize", "lock", "append"} =>
             /\ task[k].markdown # <<>>
             /\ Item(k).Markdown # <<>>

\* ScrapeURL returned an empty body to one goroutine of the batch, which
\* returned an error, and the batch's collection holds a peer's item.
C33_Witness ==
    /\ pc = "batch"
    /\ \E k, l \in Tasks :
          /\ task[k].scraped = "empty"
          /\ task[k].pc = "returned"
          /\ (i + k) \notin Indices(results)
          /\ task[l].pc = "returned"
          /\ \E j \in 1..Len(results) :
                results[j].Index = i + l /\ results[j].Markdown = Body(urls[i + l + 1])

=============================================================================
